---- MODULE Spec2Model ----
(***************************************************************************)
(* State-machine model of the CTHarvester thumbnail pyramid builder.       *)
(*                                                                         *)
(* The grouped builder (src/src/lib_optimized.rs, build_thumbnails_        *)
(* optimized / process_group_all_levels) is modelled step by step: one     *)
(* action per stretch of code between two observer invocations.  Several   *)
(* builds are run one after another on the same input directory, so that   *)
(* resume, cancellation and idempotence can be observed; between two       *)
(* builds the environment may delete one output file.  The caller chooses  *)
(* at each build between directory mode and pattern mode; the two differ   *)
(* only when no slice is selected.                                         *)
(*                                                                         *)
(* The per-level builder (src/src/lib_final.rs, build_thumbnails /         *)
(* process_level_with_callback) is the second variant of the same build:   *)
(* a behaviour runs one variant, chosen with the input, for all its        *)
(* builds.                                                                 *)
(*                                                                         *)
(* Progress arithmetic is exact: the f64 weights of the code are scaled by *)
(* Scale(n, L) so that every per-output weight is an integer, and a        *)
(* percentage p is represented by the integer p * total_units (so 100.0 is *)
(* 100 * TotalUnits and 1.0 is TotalUnits).  Floating-point rounding is    *)
(* not modelled.                                                           *)
(***************************************************************************)
EXTENDS Integers, Sequences, FiniteSets, TLC

\* ---------------------------------------------------------------- bounds
MaxSlices == 5
MaxRuns == 2
\* Faults of the environment in one behaviour: an output file deleted or a
\* slice file replaced between two builds, a read or write of an output file
\* that fails.
MaxFaults == 1
\* Pairs of a level left to compute when a call of the pump-thread variant
\* starts: the level directory holds all but at most MaxTodo of its outputs.
MaxTodo == 2

\* ------------------------------------------------------ program constants
THRESHOLD == 500

\* ------------------------------------------------------------- inputs
\* The volumes tried: <<width, height, bit depth>> of the slices;
\* levels_needed is 0, 1, 2, 3 for them.
Volumes == { <<400, 300, 8>>, <<1000, 800, 8>>, <<2000, 1100, 16>>, <<4000, 3000, 8>> }
\* What the observer may return: True, False, a non-boolean, or it raises.
ObsReturns == {"true", "false", "none", "raise"}
Variants == {"grouped", "perlevel"}

VARIABLES
    \* the caller's arguments and the input directory (fixed over all builds)
    variant,        \* "grouped": lib_optimized.rs, "perlevel": lib_final.rs
    hasCb,          \* py_progress_cb is Some
    slices,         \* the selected slice files, in order: [w, h, depth, ok]
    replaced,       \* a slice file was replaced between two builds: "no",
                    \* "pending" (no build started since) or "built"
    \* one call of a function of the library, apart from any build
    op,             \* the function called, "build" when a build is modelled
    arg,            \* its arguments
    res,            \* <<>> before the call, <<value returned>> after it
    \* the output tree <input>/.thumbnail
    disk,           \* output files: [level, idx, w, h, depth, src]
    dirs,           \* directories created: 0 is .thumbnail, l is .thumbnail/l
    \* one build
    pc, status,
    existing,       \* existing_files: <<level, idx>> found at build start
    doneUnits,      \* done_units
    groupIdx, level, pairIdx,
    currentImages, nextImages, curW, curH, is16bit,
    lastReportedPct,
    \* history
    run,            \* number of builds started
    reported,       \* percentages delivered to the observer in this build
    lastRet,        \* what the observer returned on the latest invocation
    obsFalse,       \* the observer has returned boolean false in this build
    cancelled,      \* a false return has made process_group_all_levels return
    written,        \* <<level, idx>> written in this build
    names,          \* <<level, group start, local index, idx>> of each write
    ioFails,        \* number of reads and writes of output files that failed
    startKeys,      \* <<level, idx>> on disk when this build started
    treeState,      \* how the disk relates to the last build's result
    startState,     \* treeState when this build started
    deleted,        \* the file deleted from a complete tree, else NoFile
    deletes,        \* number of deletions so far
    \* one call of build_thumbnails of lib.rs: the calling thread, which holds
    \* the interpreter lock, and the pump thread it spawns
    mainAt,         \* where the calling thread is ("idle": no such call)
    level_no,       \* level_no of the loop over the levels
    pair_i,         \* pair_i of process_level
    progress,       \* progress.0 (done units), times 8^(levels - 1)
    stop,           \* the stop flag
    gil,            \* the interpreter lock: "main" holds it, or "free"
    pumpAt,         \* where the pump thread is ("none": not spawned)
    pump_pct,       \* pct of the pump thread
    last_pct,       \* last_pct of the pump thread
    delivered,      \* invocations of the observer: [by, v, late]
    result          \* what the call returned: "none", "ok", "err"

pumpVars == <<mainAt, level_no, pair_i, progress, stop, gil, pumpAt, pump_pct, last_pct,
              delivered, result>>
fnVars == <<op, arg, res, pumpVars>>
inputVars == <<variant, hasCb, slices, replaced, fnVars>>
treeVars == <<disk, dirs>>
groupVars == <<groupIdx, level, pairIdx, currentImages, nextImages, curW, curH,
               is16bit, lastReportedPct>>
histVars == <<run, reported, lastRet, obsFalse, cancelled, written, names, ioFails,
              startKeys, treeState, startState, deleted, deletes>>
vars == <<inputVars, treeVars, pc, status, existing, doneUnits, groupVars, histVars>>

NoFile == [level |-> 0, idx |-> 0, w |-> 0, h |-> 0, depth |-> 0, src |-> {}]

\* ------------------------------------------------------------ arithmetic
Min(a, b) == IF a < b THEN a ELSE b
Abs(a) == IF a < 0 THEN -a ELSE a
Shr(x, k) == x \div (2 ^ k)
Last(s) == s[Len(s)]

\* ------------------------------------------------------------- planning
\* A bug to compare with: the loop stops as soon as one side is small enough.
RECURSIVE calc_levels_needed_and(_, _)
calc_levels_needed_and(w, h) ==
    IF w > THRESHOLD /\ h > THRESHOLD
    THEN 1 + calc_levels_needed_and(w \div 2, h \div 2)
    ELSE 0

RECURSIVE calc_levels_needed(_, _)
calc_levels_needed(w, h) ==
    IF w > THRESHOLD \/ h > THRESHOLD
    THEN 1 + calc_levels_needed(w \div 2, h \div 2)
    ELSE 0

get_group_size(levels) == 2 ^ levels

\* outputs_in_level = (n_files + (1 << level) - 1) >> level
outputs_in_level(n, l) == Shr(n + 2 ^ l - 1, l)

\* The product of outputs_in_level over the levels 1..l.
RECURSIVE OutputsProduct(_, _)
OutputsProduct(n, l) ==
    IF l = 0 THEN 1 ELSE outputs_in_level(n, l) * OutputsProduct(n, l - 1)

\* The common denominator of the per-output weights 0.125^(l-1) / outputs_in_level.
Scale(n, L) == 8 ^ (L - 1) * OutputsProduct(n, L)

\* weight_per_level[l - 1], times Scale(n, L)
weight_per_level(n, L, l) == Scale(n, L) \div (8 ^ (l - 1) * outputs_in_level(n, l))

\* total_units += outputs_in_level as f64 * level_weight, over the levels 1..l
RECURSIVE TotalUpTo(_, _, _)
TotalUpTo(n, L, l) ==
    IF l = 0 THEN 0
    ELSE outputs_in_level(n, l) * weight_per_level(n, L, l) + TotalUpTo(n, L, l - 1)

\* total_units, times Scale(n, L)
total_units(n, L) == TotalUpTo(n, L, L)

\* A bug to compare with: a skipped group is credited every level's whole weight.
group_weight_full(n, L) == total_units(n, L)

\* group_weight of the fast skip: the sum of weight_per_level over the levels 1..l
RECURSIVE GroupWeightUpTo(_, _, _)
GroupWeightUpTo(n, L, l) ==
    IF l = 0 THEN 0 ELSE weight_per_level(n, L, l) + GroupWeightUpTo(n, L, l - 1)

group_weight(n, L) == GroupWeightUpTo(n, L, L)

\* plan_levels of the per-level variant: the pairs expected at each level.
RECURSIVE plan_levels(_, _, _)
plan_levels(remaining_n, w, h) ==
    LET pairs == remaining_n \div 2
    IN  IF pairs = 0 THEN <<>>
        ELSE IF (w \div 2) <= THRESHOLD /\ (h \div 2) <= THRESHOLD THEN <<pairs>>
        ELSE <<pairs>> \o plan_levels(pairs, w \div 2, h \div 2)

\* The weight 0.125^(l-1) of a level of a plan of K levels, times 8^(K-1).
plan_weight(K, l) == 8 ^ (K - l)

\* total_units of the per-level variant over the levels 1..l, times 8^(K-1).
RECURSIVE PlanTotalUpTo(_, _)
PlanTotalUpTo(units, l) ==
    IF l = 0 THEN 0
    ELSE units[l] * plan_weight(Len(units), l) + PlanTotalUpTo(units, l - 1)

plan_total(units) == PlanTotalUpTo(units, Len(units))

\* ------------------------------------------------- the build's parameters
NFiles == Len(slices)
W0 == slices[1].w
H0 == slices[1].h
LevelsNeeded == IF NFiles = 0 THEN 0 ELSE calc_levels_needed(W0, H0)
GroupSize == get_group_size(LevelsNeeded)
NGroups == (NFiles + GroupSize - 1) \div GroupSize
Units == IF NFiles = 0 THEN <<>> ELSE plan_levels(NFiles, W0, H0)
TotalUnits ==
    IF variant = "perlevel"
    THEN IF Units = <<>> THEN 1 ELSE plan_total(Units)
    ELSE IF LevelsNeeded = 0 THEN 1 ELSE total_units(NFiles, LevelsNeeded)
Weight(l) == weight_per_level(NFiles, LevelsNeeded, l)

GroupStart == groupIdx * GroupSize
GroupEnd == Min(GroupStart + GroupSize, NFiles)
GroupLen == GroupEnd - GroupStart

\* pct = (done / total_units * 100.0).min(100.0), times TotalUnits
Pct(done) == Min(100 * done, 100 * TotalUnits)
Pct100 == 100 * TotalUnits
Pct0 == 0
PctDelta == TotalUnits

Keys(files) == { <<f.level, f.idx>> : f \in files }
FileAt(k) == CHOOSE f \in disk : <<f.level, f.idx>> = k

\* ------------------------------------------------------------- observer
\* A bug to compare with: only a boolean true lets the build continue.
should_continue_strict(ret) == ret = "true"

\* result.extract::<bool>() if Ok, else true; Err(_) => true
should_continue(ret) == ret # "false"

\* What the observer may return; nothing is asked when there is no callback.
Rets == IF hasCb THEN ObsReturns ELSE {"none"}

\* cb.call1(py, (pct,)) with the observer returning ret
Invoke(pct, ret) ==
    IF hasCb
    THEN /\ reported' = Append(reported, pct)
         /\ lastRet' = ret
         /\ obsFalse' = (obsFalse \/ ret = "false")
    ELSE UNCHANGED <<reported, lastRet, obsFalse>>

NoInvoke == UNCHANGED <<reported, lastRet, obsFalse>>

\* ------------------------------------------------------------ the tree
\* A bug to compare with: the name is looked up in existing_files[level].
exists_in_next_level(ex, lvl, gidx) == <<lvl + 1, gidx>> \in ex

\* existing_files[level - 1].contains(&format!("{:06}.tif", global_idx))
exists_in(ex, lvl, gidx) == <<lvl, gidx>> \in ex

\* A bug to compare with: no existing file is found.
collect_nothing(files, maxLevels) == {}

\* collect_existing_files: the names found in the level directories 1..max_levels
collect_existing_files(files, maxLevels) ==
    { k \in Keys(files) : k[1] \in 1..maxLevels }

\* A bug to compare with: the output is named by its local index alone.
global_idx_local(start, lvl, p) == p

\* global_pair_offset + pair_idx, with global_pair_offset = group_start_idx >> level
global_idx(start, lvl, p) == Shr(start, lvl) + p

\* A bug to compare with: the result is handed on and no file is written.
write_nothing(files, lvl, gidx, w, h, buf) == files

\* write_tiff_preserve_depth(level_dir.join(output_name), new_w, new_h, result)
WriteFile(files, lvl, gidx, w, h, buf) ==
    { f \in files : <<f.level, f.idx>> # <<lvl, gidx>> }
        \cup { [level |-> lvl, idx |-> gidx, w |-> w, h |-> h,
                depth |-> buf.depth, src |-> buf.src] }

\* ------------------------------------------------------------- Init
\* A slice file; kind "undecodable" fails to decode, "othersize" decodes to a
\* size other than the first slice's, "otherdepth" to the other bit depth.
SliceKinds == {"good", "undecodable", "othersize", "otherdepth"}
Slice(vol, kind) ==
    [w |-> IF kind = "othersize" THEN vol[1] + 2 ELSE vol[1], h |-> vol[2],
     depth |-> IF kind = "otherdepth" THEN 24 - vol[3] ELSE vol[3],
     ok |-> kind # "undecodable"]

\* No call of build_thumbnails of lib.rs is modelled.
PumpIdle ==
    /\ mainAt = "idle" /\ level_no = 0 /\ pair_i = 0 /\ progress = 0
    /\ stop = FALSE /\ gil = "free" /\ pumpAt = "none"
    /\ pump_pct = 0 /\ last_pct = 0 /\ delivered = <<>> /\ result = "none"

\* The state before a build: nothing built, nothing reported, an empty tree.
InitBuild ==
    /\ replaced = "no"
    /\ disk = {}
    /\ dirs = {}
    /\ pc = "start"
    /\ status = "none"
    /\ existing = {}
    /\ doneUnits = 0
    /\ groupIdx = 0 /\ level = 0 /\ pairIdx = 0
    /\ currentImages = <<>> /\ nextImages = <<>>
    /\ curW = 0 /\ curH = 0 /\ is16bit = FALSE
    /\ lastReportedPct = 0
    /\ run = 1
    /\ reported = <<>>
    /\ lastRet = "none"
    /\ obsFalse = FALSE
    /\ cancelled = FALSE
    /\ written = {}
    /\ names = {}
    /\ ioFails = 0
    /\ startKeys = {}
    /\ treeState = "other"
    /\ startState = "other"
    /\ deleted = NoFile
    /\ deletes = 0

Init ==
    /\ variant \in Variants
    /\ hasCb \in BOOLEAN
    /\ \E n \in 0..MaxSlices, vol \in Volumes :
       \E bad \in 0..n, kind \in SliceKinds \ {"good"} :
           /\ bad = 0 => kind = "undecodable"
           /\ bad = 1 => kind \in {"undecodable", "otherdepth"}
           /\ slices = [i \in 1..n |-> Slice(vol, IF i = bad THEN kind ELSE "good")]
    /\ op = "build" /\ arg = <<>> /\ res = <<>>
    /\ PumpIdle
    /\ InitBuild

\* ------------------------------------------------- build_thumbnails_optimized
\* The run ends: build_thumbnails_optimized returns to its caller.
Return(st) ==
    /\ pc' = "done"
    /\ status' = st
    /\ treeState' = IF st = "ok" /\ ~obsFalse' THEN "complete"
                    ELSE IF st = "ok" /\ cancelled THEN "cancelled"
                    ELSE "other"

\* Directory mode (one of the five pattern arguments is None) with no matching
\* file: list_slices_sorted returns Err(Empty), which `?` propagates to the caller.
StartEmptyDir ==
    /\ pc = "start"
    /\ NFiles = 0
    /\ NoInvoke
    /\ Return("err")
    /\ UNCHANGED <<inputVars, treeVars, existing, doneUnits, groupVars,
                   run, cancelled, written, names, startKeys, startState, deleted, deletes, ioFails>>

\* Pattern mode (all five pattern arguments given) with no index of the range
\* present: files.is_empty().
StartEmptyPattern ==
    /\ pc = "start"
    /\ NFiles = 0
    /\ \E ret \in Rets : Invoke(Pct100, ret)
    /\ Return("ok")
    /\ UNCHANGED <<inputVars, treeVars, existing, doneUnits, groupVars,
                   run, cancelled, written, names, startKeys, startState, deleted, deletes, ioFails>>

\* The first slice cannot be decoded.
StartDecodeError ==
    /\ pc = "start"
    /\ NFiles > 0 /\ ~slices[1].ok
    /\ NoInvoke
    /\ Return("err")
    /\ UNCHANGED <<inputVars, treeVars, existing, doneUnits, groupVars,
                   run, cancelled, written, names, startKeys, startState, deleted, deletes, ioFails>>

\* A bug to compare with: .thumbnail is created before levels_needed is looked
\* at, and the 0.0 callback is made before the 100.0 one.
StartSmallLate ==
    /\ pc = "start"
    /\ variant = "grouped"
    /\ NFiles > 0 /\ slices[1].ok
    /\ LevelsNeeded = 0
    /\ dirs' = dirs \cup {0}
    /\ \E ret \in Rets :
           IF hasCb
           THEN /\ reported' = reported \o <<Pct0, Pct100>>
                /\ lastRet' = ret
                /\ obsFalse' = (obsFalse \/ ret = "false")
           ELSE NoInvoke
    /\ Return("ok")
    /\ UNCHANGED <<inputVars, disk, existing, doneUnits, groupVars,
                   run, cancelled, written, names, startKeys, startState, deleted, deletes, ioFails>>

\* levels_needed == 0: one invocation with 100.0, nothing else.
StartSmall ==
    /\ pc = "start"
    /\ variant = "grouped"
    /\ NFiles > 0 /\ slices[1].ok
    /\ LevelsNeeded = 0
    /\ \E ret \in Rets : Invoke(Pct100, ret)
    /\ Return("ok")
    /\ UNCHANGED <<inputVars, treeVars, existing, doneUnits, groupVars,
                   run, cancelled, written, names, startKeys, startState, deleted, deletes, ioFails>>

\* The initial value delivered on entry to the group loop.
InitialPct == Pct0

\* ensure_dir(.thumbnail), collect_existing_files, the weights, the 0.0 callback.
StartGroups ==
    /\ pc = "start"
    /\ variant = "grouped"
    /\ NFiles > 0 /\ slices[1].ok
    /\ LevelsNeeded > 0
    /\ dirs' = dirs \cup {0}
    /\ existing' = collect_existing_files(disk, LevelsNeeded)
    /\ doneUnits' = 0
    /\ \E ret \in Rets : Invoke(InitialPct, ret)
    /\ groupIdx' = 0
    /\ pc' = "group"
    /\ UNCHANGED <<inputVars, disk, status, level, pairIdx, currentImages,
                   nextImages, curW, curH, is16bit, lastReportedPct,
                   run, cancelled, written, names, startKeys, treeState, startState, deleted,
                   deletes, ioFails>>

\* ------------------------------------------------- process_group_all_levels
\* The locals of process_group_all_levels go out of scope.
DropLocals ==
    /\ level' = 0 /\ pairIdx' = 0
    /\ currentImages' = <<>> /\ nextImages' = <<>>
    /\ curW' = 0 /\ curH' = 0 /\ is16bit' = FALSE
    /\ lastReportedPct' = 0

\* process_group_all_levels returns Ok(()): the loop over the groups goes on.
ReturnFromGroup ==
    /\ groupIdx' = groupIdx + 1
    /\ pc' = IF groupIdx + 1 < NGroups THEN "group" ELSE "final"
    /\ DropLocals

\* total_at_level of the skip check: pairs_at_level, plus one when has_odd
total_at_level(gs, lvl) ==
    Shr(gs, lvl) + (IF Shr(gs, lvl - 1) % 2 = 1 THEN 1 ELSE 0)

\* all_exist: every index the skip check tests is in existing_files
all_exist(ex, gs, start, L) ==
    \A lvl \in 1..L :
        \A p \in 0..(total_at_level(gs, lvl) - 1) :
            exists_in(ex, lvl, global_idx(start, lvl, p))

\* The group is skipped: its weight is added, the observer invoked once.
FastSkip ==
    /\ pc = "group"
    /\ GroupLen > 0 /\ LevelsNeeded > 0
    /\ all_exist(existing, GroupLen, GroupStart, LevelsNeeded)
    /\ doneUnits' = doneUnits + group_weight(NFiles, LevelsNeeded)
    /\ \E ret \in Rets :
           /\ Invoke(Pct(doneUnits'), ret)
           /\ cancelled' = (cancelled \/ (hasCb /\ ~should_continue(ret)))
    /\ ReturnFromGroup
    /\ UNCHANGED <<inputVars, treeVars, status, existing, run, written, names, startKeys,
                   treeState, startState, deleted, deletes, ioFails>>

\* A bug to compare with: the caller of process_group_all_levels drops the Err
\* and goes on with the next group.
SwallowError ==
    /\ ReturnFromGroup
    /\ UNCHANGED <<status, treeState>>

\* process_group_all_levels returns Err, which `.map_err(to_pyerr)?` in the loop
\* over the groups returns to the caller of the build.
PropagateError ==
    /\ Return("err")
    /\ UNCHANGED groupVars

\* The slice of the group that stops the load, 0 when every slice loads.
FirstBadInGroup ==
    LET bad == { i \in (GroupStart + 1)..GroupEnd :
                    ~slices[i].ok \/ slices[i].w # W0 \/ slices[i].h # H0 }
    IN  IF bad = {} THEN 0 ELSE CHOOSE i \in bad : \A j \in bad : i <= j

\* A slice of the group fails to decode or has another size: the build fails.
LoadGroupError ==
    /\ pc = "group"
    /\ GroupLen > 0 /\ LevelsNeeded > 0
    /\ ~all_exist(existing, GroupLen, GroupStart, LevelsNeeded)
    /\ FirstBadInGroup # 0
    /\ NoInvoke
    /\ PropagateError
    /\ UNCHANGED <<inputVars, treeVars, existing, doneUnits,
                   run, cancelled, written, names, startKeys, startState, deleted,
                   deletes, ioFails>>

DepthOf(b16) == IF b16 THEN 16 ELSE 8

\* Every slice of the group is decoded and converted to the first one's depth.
LoadGroup ==
    /\ pc = "group"
    /\ GroupLen > 0 /\ LevelsNeeded > 0
    /\ ~all_exist(existing, GroupLen, GroupStart, LevelsNeeded)
    /\ FirstBadInGroup = 0
    /\ is16bit' = (slices[GroupStart + 1].depth = 16)
    /\ currentImages' = [i \in 1..GroupLen |->
                            [depth |-> DepthOf(is16bit'), src |-> {GroupStart + i - 1}]]
    /\ nextImages' = <<>>
    /\ curW' = W0 /\ curH' = H0
    /\ lastReportedPct' = -PctDelta
    /\ level' = 1 /\ pairIdx' = 0
    /\ pc' = "level"
    /\ NoInvoke
    /\ UNCHANGED <<inputVars, treeVars, status, existing, doneUnits, groupIdx,
                   run, cancelled, written, names, startKeys, treeState, startState,
                   deleted, deletes, ioFails>>

pairs_in_level == Len(currentImages) \div 2

\* The head of the level loop: ensure_dir, then break when there is no pair.
LevelBegin ==
    /\ pc = "level"
    /\ dirs' = dirs \cup {level}
    /\ IF pairs_in_level = 0
       THEN ReturnFromGroup
       ELSE /\ nextImages' = <<>>
            /\ pairIdx' = 0
            /\ pc' = "paircheck"
            /\ UNCHANGED <<groupIdx, level, currentImages, curW, curH, is16bit,
                           lastReportedPct>>
    /\ NoInvoke
    /\ UNCHANGED <<inputVars, disk, status, existing, doneUnits,
                   run, cancelled, written, names, startKeys, treeState, startState,
                   deleted, deletes, ioFails>>

\* A bug to compare with: the factor 100.0 is forgotten.
check_pct_fraction(current_done) == Min(current_done, Pct100)

\* check_pct = (current_done / total_units * 100.0).min(100.0)
check_pct(current_done) == Pct(current_done)

\* The cancellation check at the beginning of each pair.
PairCheck ==
    /\ pc = "paircheck"
    /\ \E ret \in Rets :
           /\ Invoke(check_pct(doneUnits), ret)
           /\ IF hasCb /\ ~should_continue(ret)
              THEN cancelled' = TRUE /\ ReturnFromGroup
              ELSE /\ pc' = "pair"
                   /\ UNCHANGED <<cancelled, groupVars>>
    /\ UNCHANGED <<inputVars, treeVars, status, existing, doneUnits,
                   run, written, names, startKeys, treeState, startState, deleted, deletes, ioFails>>

\* After a pair: the next pair, or the odd remainder of the level.
NextPair ==
    /\ IF pairIdx + 1 < pairs_in_level
       THEN pairIdx' = pairIdx + 1 /\ pc' = "paircheck"
       ELSE pairIdx' = pairIdx /\ pc' = "odd"
    /\ UNCHANGED <<groupIdx, level, currentImages, curW, curH, is16bit>>

\* A bug to compare with: an existing output is taken whatever its size.
read_back_any(f, new_w, new_h) == TRUE

\* if w == new_w && h == new_h, for an output read back
read_back_ok(f, new_w, new_h) == f.w = new_w /\ f.h = new_h

\* The report after a pair is due.
report_due(pct, last, p, pairs, lvl, L) ==
    Abs(pct - last) > PctDelta \/ (p = pairs - 1 /\ lvl = L)

\* One pair: computed and written, or read back; then the progress update.
PairProcess ==
    /\ pc = "pair"
    /\ LET gidx == global_idx(GroupStart, level, pairIdx)
           newW == curW \div 2
           newH == curH \div 2
           b0 == currentImages[2 * pairIdx + 1]
           b1 == currentImages[2 * pairIdx + 2]
           d == DepthOf(is16bit)
           merged == [depth |-> d, src |-> b0.src \cup b1.src]
       IN  IF ~exists_in(existing, level, gidx)
           THEN IF b0.depth = d /\ b1.depth = d
                THEN /\ disk' = WriteFile(disk, level, gidx, newW, newH, merged)
                     /\ written' = written \cup {<<level, gidx>>}
                     /\ names' = names \cup {<<level, GroupStart, pairIdx, gidx>>}
                     /\ nextImages' = Append(nextImages, merged)
                ELSE UNCHANGED <<disk, written, names, nextImages>>
           ELSE /\ UNCHANGED <<disk, written, names>>
                /\ IF <<level, gidx>> \in Keys(disk)
                      /\ read_back_ok(FileAt(<<level, gidx>>), newW, newH)
                   THEN nextImages' = Append(nextImages,
                            [depth |-> FileAt(<<level, gidx>>).depth,
                             src |-> FileAt(<<level, gidx>>).src])
                   ELSE UNCHANGED nextImages
    /\ doneUnits' = doneUnits + Weight(level)
    /\ LET pct == Pct(doneUnits')
       IN  IF hasCb /\ report_due(pct, lastReportedPct, pairIdx, pairs_in_level,
                                  level, LevelsNeeded)
           THEN \E ret \in Rets :
                    /\ Invoke(pct, ret)
                    /\ IF ~should_continue(ret)
                       THEN cancelled' = TRUE /\ ReturnFromGroup
                       ELSE /\ lastReportedPct' = pct
                            /\ NextPair
                            /\ UNCHANGED cancelled
           ELSE /\ NoInvoke
                /\ NextPair
                /\ UNCHANGED <<cancelled, lastReportedPct>>
    /\ UNCHANGED <<inputVars, dirs, status, existing, run, startKeys, treeState,
                   startState, deleted, deletes, ioFails>>

\* The pair's output cannot be written, or the existing one cannot be read
\* back: write_tiff_preserve_depth or read_luma_preserve_depth returns Err.
PairIoError ==
    /\ pc = "pair"
    /\ replaced = "no" /\ deletes + ioFails < MaxFaults
    /\ LET gidx == global_idx(GroupStart, level, pairIdx)
           b0 == currentImages[2 * pairIdx + 1]
           b1 == currentImages[2 * pairIdx + 2]
           d == DepthOf(is16bit)
       IN  IF ~exists_in(existing, level, gidx)
           THEN b0.depth = d /\ b1.depth = d
           ELSE <<level, gidx>> \in Keys(disk)
    /\ ioFails' = ioFails + 1
    /\ NoInvoke
    /\ PropagateError
    /\ UNCHANGED <<inputVars, treeVars, existing, doneUnits,
                   run, cancelled, written, names, startKeys, startState, deleted,
                   deletes>>

\* A bug to compare with: the loop over the levels stops as soon as one side
\* is small enough.
small_enough_either(w, h) == w <= THRESHOLD \/ h <= THRESHOLD

\* current_w <= 500 && current_h <= 500
small_enough(w, h) == w <= THRESHOLD /\ h <= THRESHOLD

\* The odd remainder of the level, then the step to the next level.
OddRemainder ==
    /\ pc = "odd"
    /\ LET k == Len(currentImages)
           gidx == global_idx(GroupStart, level, pairs_in_level)
           newW == curW \div 2
           newH == curH \div 2
           d == DepthOf(is16bit)
           down == [depth |-> d, src |-> currentImages[k].src]
           doWrite == /\ k % 2 = 1
                      /\ ~exists_in(existing, level, gidx)
                      /\ currentImages[k].depth = d
           nxt == IF doWrite THEN Append(nextImages, down) ELSE nextImages
       IN  /\ IF doWrite
              THEN /\ disk' = WriteFile(disk, level, gidx, newW, newH, down)
                   /\ written' = written \cup {<<level, gidx>>}
                   /\ names' = names \cup {<<level, GroupStart, pairs_in_level, gidx>>}
              ELSE UNCHANGED <<disk, written, names>>
           /\ IF small_enough(newW, newH) \/ level = LevelsNeeded
              THEN ReturnFromGroup
              ELSE /\ currentImages' = nxt
                   /\ nextImages' = <<>>
                   /\ curW' = newW /\ curH' = newH
                   /\ level' = level + 1
                   /\ pc' = "level"
                   /\ UNCHANGED <<groupIdx, pairIdx, is16bit, lastReportedPct>>
    /\ NoInvoke
    /\ UNCHANGED <<inputVars, dirs, status, existing, doneUnits, run, cancelled,
                   startKeys, treeState, startState, deleted, deletes, ioFails>>

\* A bug to compare with: the final callback carries the accumulated progress.
FinalPctFromDone == Pct(doneUnits)

\* The value of the final callback.
FinalPct == Pct100

\* All groups are done: the final callback, then Ok(()).
Finish ==
    /\ pc = "final"
    /\ \E ret \in Rets : Invoke(FinalPct, ret)
    /\ Return("ok")
    /\ UNCHANGED <<inputVars, treeVars, existing, doneUnits, groupVars,
                   run, cancelled, written, names, startKeys, startState, deleted, deletes, ioFails>>

\* ------------------------------------------- lib_final.rs: build_thumbnails
\* percent(done_units, total_units)
percent(done) == IF TotalUnits <= 0 THEN Pct100 ELSE Pct(done)

\* completed_outputs_in_level: the number of files in the level directory
completed_outputs_in_level(files, lvl) ==
    Cardinality({ f \in files : f.level = lvl })

\* The n smallest indices first: the files of a level in natural order.
RECURSIVE SortedByIdx(_)
SortedByIdx(files) ==
    IF files = {} THEN <<>>
    ELSE LET f == CHOOSE x \in files : \A y \in files : x.idx <= y.idx
         IN  <<f>> \o SortedByIdx(files \ {f})

\* cur_files at a level: the slices, or list_slices_sorted of the level below.
cur_files(files, lvl) ==
    IF lvl = 1
    THEN [i \in 1..NFiles |->
            [w |-> slices[i].w, h |-> slices[i].h, depth |-> slices[i].depth,
             ok |-> slices[i].ok, src |-> {i - 1}]]
    ELSE LET below == SortedByIdx({ f \in files : f.level = lvl - 1 })
         IN  [i \in 1..Len(below) |->
                [w |-> below[i].w, h |-> below[i].h, depth |-> below[i].depth,
                 ok |-> TRUE, src |-> below[i].src]]

\* total_units == 0.0 (fewer than two slices): one invocation with 100.0.
FStartTrivial ==
    /\ pc = "start"
    /\ variant = "perlevel"
    /\ NFiles > 0 /\ slices[1].ok
    /\ Units = <<>>
    /\ dirs' = dirs \cup {0}
    /\ \E ret \in Rets : Invoke(Pct100, ret)
    /\ Return("ok")
    /\ UNCHANGED <<inputVars, disk, existing, doneUnits, groupVars,
                   run, cancelled, written, names, startKeys, startState, deleted, deletes, ioFails>>

\* ensure_dir(.thumbnail), plan_levels, the 0.0 callback.
FStartLevels ==
    /\ pc = "start"
    /\ variant = "perlevel"
    /\ NFiles > 0 /\ slices[1].ok
    /\ Units # <<>>
    /\ dirs' = dirs \cup {0}
    /\ doneUnits' = 0
    /\ \E ret \in Rets : Invoke(Pct0, ret)
    /\ level' = 1
    /\ curW' = W0 /\ curH' = H0
    /\ pc' = "flevel"
    /\ UNCHANGED <<inputVars, disk, status, existing, groupIdx, pairIdx,
                   currentImages, nextImages, is16bit, lastReportedPct,
                   run, cancelled, written, names, startKeys, treeState, startState,
                   deleted, deletes, ioFails>>

\* After a level: list_slices_sorted(out_dir), halve, break when small enough.
AfterLevel(files) ==
    IF { f \in files : f.level = level } = {}
    THEN /\ Return("err")
         /\ UNCHANGED <<level, curW, curH, pairIdx, lastReportedPct>>
    ELSE /\ curW' = curW \div 2 /\ curH' = curH \div 2
         /\ pairIdx' = 0
         /\ lastReportedPct' = 0
         /\ IF (curW' <= THRESHOLD /\ curH' <= THRESHOLD) \/ level = Len(Units)
            THEN pc' = "final" /\ level' = 0
            ELSE pc' = "flevel" /\ level' = level + 1
         /\ UNCHANGED <<status, treeState>>

\* start_pair_idx of the level: min(already, pairs_expected)
already_clamped(files, lvl) == Min(completed_outputs_in_level(files, lvl), Units[lvl])

\* The head of a level: the files found are credited; a complete level is
\* skipped, otherwise process_level_with_callback starts at pair `from`.
FLevelBegin ==
    /\ pc = "flevel"
    /\ dirs' = dirs \cup {level}
    /\ doneUnits' = doneUnits + already_clamped(disk, level) * plan_weight(Len(Units), level)
    /\ LET total_pairs == Len(cur_files(disk, level)) \div 2
           from == Min(already_clamped(disk, level), total_pairs)
       IN  IF Units[level] - already_clamped(disk, level) <= 0 \/ from >= total_pairs
           THEN AfterLevel(disk)
           ELSE /\ pairIdx' = from
                /\ lastReportedPct' = -PctDelta
                /\ pc' = "fpair"
                /\ UNCHANGED <<level, curW, curH, status, treeState>>
    /\ NoInvoke
    /\ UNCHANGED <<inputVars, disk, existing, groupIdx, currentImages, nextImages,
                   is16bit, run, cancelled, written, names, startKeys, startState,
                   deleted, deletes, ioFails>>

\* The report after a pair of the per-level variant is due.
level_report_due(pct, last, p, to) == p = to - 1 \/ Abs(pct - last) > PctDelta

\* A slice or a file of the level below cannot be used: the build fails.
FPairError ==
    /\ pc = "fpair"
    /\ LET inputs == cur_files(disk, level)
           f0 == inputs[2 * pairIdx + 1]
           f1 == inputs[2 * pairIdx + 2]
       IN  ~f0.ok \/ ~f1.ok \/ f0.w # curW \/ f0.h # curH \/ f1.w # curW \/ f1.h # curH
    /\ NoInvoke
    /\ Return("err")
    /\ UNCHANGED <<inputVars, treeVars, existing, doneUnits, groupVars,
                   run, cancelled, written, names, startKeys, startState, deleted, deletes, ioFails>>

\* One pair of process_level_with_callback: read, downscale, average, write,
\* progress update and report; after the last pair, the step to the next level.
FPair ==
    /\ pc = "fpair"
    /\ LET inputs == cur_files(disk, level)
           to == Len(inputs) \div 2
           f0 == inputs[2 * pairIdx + 1]
           f1 == inputs[2 * pairIdx + 2]
           out == [depth |-> IF f0.depth = 8 /\ f1.depth = 8 THEN 8 ELSE 16,
                   src |-> f0.src \cup f1.src]
           pct == percent(doneUnits')
       IN  /\ f0.ok /\ f1.ok
           /\ f0.w = curW /\ f0.h = curH /\ f1.w = curW /\ f1.h = curH
           /\ disk' = WriteFile(disk, level, pairIdx, curW \div 2, curH \div 2, out)
           /\ written' = written \cup {<<level, pairIdx>>}
           /\ names' = names \cup {<<level, 0, pairIdx, pairIdx>>}
           /\ doneUnits' = doneUnits + plan_weight(Len(Units), level)
           /\ IF hasCb /\ level_report_due(pct, lastReportedPct, pairIdx, to)
              THEN \E ret \in Rets : Invoke(pct, ret)
              ELSE NoInvoke
           /\ IF pairIdx + 1 < to
              THEN /\ pairIdx' = pairIdx + 1
                   /\ lastReportedPct' =
                          IF hasCb /\ level_report_due(pct, lastReportedPct, pairIdx, to)
                          THEN pct ELSE lastReportedPct
                   /\ UNCHANGED <<pc, level, curW, curH, status, treeState>>
              ELSE AfterLevel(disk')
    /\ UNCHANGED <<inputVars, dirs, existing, groupIdx, currentImages, nextImages,
                   is16bit, run, cancelled, startKeys, startState, deleted, deletes, ioFails>>

\* ------------------------------------------------------------ environment
\* The caller runs the build again on the same directory.
NewRun ==
    /\ pc = "done"
    /\ run < MaxRuns
    /\ run' = run + 1
    /\ pc' = "start"
    /\ status' = "none"
    /\ existing' = {}
    /\ doneUnits' = 0
    /\ groupIdx' = 0
    /\ reported' = <<>>
    /\ lastRet' = "none"
    /\ obsFalse' = FALSE
    /\ cancelled' = FALSE
    /\ written' = {}
    /\ names' = {}
    /\ startKeys' = Keys(disk)
    /\ startState' = treeState
    /\ deleted' = IF treeState = "minus1" THEN deleted ELSE NoFile
    /\ replaced' = IF replaced = "pending" THEN "built" ELSE replaced
    /\ UNCHANGED <<variant, hasCb, slices, fnVars, treeVars, level, pairIdx, currentImages, nextImages,
                   curW, curH, is16bit, lastReportedPct, treeState, deletes, ioFails>>

\* Between two builds, one output file is deleted.
DeleteOutput ==
    /\ pc = "done"
    /\ run < MaxRuns
    /\ replaced = "no" /\ deletes + ioFails < MaxFaults
    /\ \E f \in disk :
           /\ disk' = disk \ {f}
           /\ deleted' = IF treeState = "complete" THEN f ELSE NoFile
    /\ treeState' = IF treeState = "complete" THEN "minus1" ELSE "other"
    /\ deletes' = deletes + 1
    /\ UNCHANGED <<inputVars, dirs, pc, status, existing, doneUnits, groupVars,
                   run, reported, lastRet, obsFalse, cancelled, written, names, startKeys,
                   startState, ioFails>>

\* Between two builds, a slice file other than the first is replaced by an
\* image of another size.
ReplaceSlice ==
    /\ pc = "done"
    /\ run < MaxRuns
    /\ replaced = "no" /\ deletes + ioFails < MaxFaults
    /\ \A i \in 1..NFiles : slices[i].ok /\ slices[i].w = W0
    /\ \E i \in 2..NFiles :
           slices' = [slices EXCEPT ![i] = [@ EXCEPT !.w = @ + 2]]
    /\ replaced' = "pending"
    /\ treeState' = "other"
    /\ deleted' = NoFile
    /\ UNCHANGED <<variant, hasCb, fnVars, treeVars, pc, status, existing, doneUnits, groupVars,
                   run, reported, lastRet, obsFalse, cancelled, written, names, ioFails,
                   startKeys, startState, deletes>>

Next ==
    \/ StartEmptyDir
    \/ StartEmptyPattern
    \/ StartDecodeError
    \/ StartSmall
    \/ StartGroups
    \/ FastSkip
    \/ LoadGroupError
    \/ LoadGroup
    \/ LevelBegin
    \/ PairCheck
    \/ PairProcess
    \/ PairIoError
    \/ OddRemainder
    \/ Finish
    \/ FStartTrivial
    \/ FStartLevels
    \/ FLevelBegin
    \/ FPairError
    \/ FPair
    \/ NewRun
    \/ DeleteOutput
    \/ ReplaceSlice

Spec == Init /\ [][Next]_vars

\* ======================================================= library functions
\* ----------------------------------------------------------------- pixels
\* x as an unsigned integer of w bits.  The integers of the checker are below
\* 2^31, so a value it holds is unchanged in 32 bits or more.
Wrap(x, w) == IF w >= 31 THEN x ELSE x % (2 ^ w)

\* A bug to compare with: the four pixels are summed in the element's width.
downscale_px_narrow(a, b, c, d, bits) == Wrap(a + b + c + d + 2, bits) \div 4

\* ((a + b + c + d + 2) >> 2) as u8 / as u16, the sum taken in u32
downscale_px(a, b, c, d, bits) == Wrap(Wrap(a + b + c + d + 2, 32) \div 4, bits)

\* downscale_half_u8 / downscale_half_u16: dst is cut in rows of dw = sw >> 1
\* pixels; pixel x of row y averages src at rows 2y, 2y + 1 and columns
\* 2x, 2x + 1 (sequences are indexed from 1).
downscale_half(src, sw, dstLen, bits) ==
    LET dw == sw \div 2
    IN  [k \in 1..dstLen |->
            LET y == (k - 1) \div dw
                x == (k - 1) % dw
                base0 == (2 * y) * sw
                base1 == (2 * y + 1) * sw
                sx0 == 2 * x
                sx1 == sx0 + 1
            IN  downscale_px(src[base0 + sx0 + 1], src[base0 + sx1 + 1],
                             src[base1 + sx0 + 1], src[base1 + sx1 + 1], bits)]

\* The sum of the values of one pixel over the slices.
RECURSIVE SumSeq(_)
SumSeq(vals) == IF vals = <<>> THEN 0 ELSE Head(vals) + SumSeq(Tail(vals))

\* The accumulator of avg_slices: u32 for u8 elements, u64 for u16 elements.
SumBits(bits) == IF bits = 8 THEN 32 ELSE 64

\* A bug to compare with: the average is truncated, not rounded.
avg_slices_floor(vals, bits) ==
    Wrap(Wrap(SumSeq(vals), SumBits(bits)) \div Len(vals), bits)

\* avg_slices_u8 / avg_slices_u16, one pixel: ((sum + count / 2) / count) as u8
avg_slices(vals, bits) ==
    LET count == Len(vals)
        sum == Wrap(SumSeq(vals), SumBits(bits))
    IN  Wrap(Wrap(sum + count \div 2, SumBits(bits)) \div count, bits)

\* avg_two_u8_inplace / avg_two_u16_inplace of the per-level variant, one
\* pixel: (((d + s) + 1) >> 1), taken in u16 for u8 elements, u32 for u16.
avg_two_inplace(d, s, bits) ==
    LET acc == 2 * bits
    IN  Wrap(Wrap(Wrap(d + s, acc) + 1, acc) \div 2, bits)

\* ------------------------------------------------------------- file names
\* A name is a sequence of characters.  The characters, by code point.
CharTable ==
    << " ", ".", "0", "1", "2", "3", "4", "5", "6", "7", "8", "9",
       "A", "B", "C", "D", "E", "F", "G", "H", "I", "J", "K", "L", "M",
       "N", "O", "P", "Q", "R", "S", "T", "U", "V", "W", "X", "Y", "Z",
       "a", "b", "c", "d", "e", "f", "g", "h", "i", "j", "k", "l", "m",
       "n", "o", "p", "q", "r", "s", "t", "u", "v", "w", "x", "y", "z" >>

Code(ch) == CHOOSE k \in 1..Len(CharTable) : CharTable[k] = ch
IsDigit(ch) == ch \in {"0", "1", "2", "3", "4", "5", "6", "7", "8", "9"}
IsUpper(ch) == Code(ch) \in 13..38

\* to_lowercase of a string of these characters
to_lowercase(str) ==
    [k \in 1..Len(str) |-> IF IsUpper(str[k]) THEN CharTable[Code(str[k]) + 26] ELSE str[k]]

\* The decimal digits of n.
RECURSIVE Digits(_)
Digits(n) ==
    IF n < 10 THEN <<CharTable[n + 3]>>
    ELSE Digits(n \div 10) \o <<CharTable[(n % 10) + 3]>>

\* {:0width$}: the digits of n, with zeros in front up to `width` characters.
ZeroPad(n, width) ==
    IF Len(Digits(n)) >= width THEN Digits(n)
    ELSE [k \in 1..(width - Len(Digits(n))) |-> "0"] \o Digits(n)

\* format!("{}{:0width$}.{}", prefix, seq, file_type, width = index_length)
PatternName(prefix, seq, file_type, width) ==
    prefix \o ZeroPad(seq, width) \o <<".">> \o file_type

\* Path::extension: the part after the last '.', none when the name has no
\* '.' or only a leading one.
LastDot(name) ==
    IF \E k \in 1..Len(name) : name[k] = "."
    THEN CHOOSE k \in 1..Len(name) :
             name[k] = "." /\ \A m \in (k + 1)..Len(name) : name[m] # "."
    ELSE 0
HasExtension(name) == LastDot(name) > 1
extension(name) == SubSeq(name, LastDot(name) + 1, Len(name))

\* matches!(ext_lower, "tif" | "tiff" | "bmp" | "jpg" | "jpeg" | "png")
ImageExts ==
    { <<"t", "i", "f">>, <<"t", "i", "f", "f">>, <<"b", "m", "p">>,
      <<"j", "p", "g">>, <<"j", "p", "e", "g">>, <<"p", "n", "g">> }

Sign(x) == IF x < 0 THEN -1 ELSE IF x > 0 THEN 1 ELSE 0
IsDigitAt(str, k) == k <= Len(str) /\ IsDigit(str[k])

\* natord: two runs of digits, one of them starting with 0, are compared
\* digit by digit from the left; the result, and where to go on when equal.
RECURSIVE digits_left(_, _, _, _)
digits_left(a, b, i, j) ==
    IF a[i] # b[j] THEN <<Sign(Code(a[i]) - Code(b[j])), i, j>>
    ELSE IF IsDigitAt(a, i + 1) /\ IsDigitAt(b, j + 1) THEN digits_left(a, b, i + 1, j + 1)
    ELSE IF IsDigitAt(a, i + 1) THEN <<1, i, j>>
    ELSE IF IsDigitAt(b, j + 1) THEN <<-1, i, j>>
    ELSE <<0, i + 1, j + 1>>

\* natord: two runs of digits not starting with 0: the longer is the greater,
\* runs of one length are decided by their first difference.
RECURSIVE digits_right(_, _, _, _, _)
digits_right(a, b, i, j, lastcmp) ==
    IF IsDigitAt(a, i + 1) /\ IsDigitAt(b, j + 1)
    THEN digits_right(a, b, i + 1, j + 1,
                      IF lastcmp = 0 THEN Sign(Code(a[i + 1]) - Code(b[j + 1]))
                      ELSE lastcmp)
    ELSE IF IsDigitAt(a, i + 1) THEN <<1, i, j>>
    ELSE IF IsDigitAt(b, j + 1) THEN <<-1, i, j>>
    ELSE <<lastcmp, i + 1, j + 1>>

\* natord::compare from the positions i and j on: -1, 0 or 1.
RECURSIVE natord_from(_, _, _, _)
natord_from(a, b, i, j) ==
    IF i <= Len(a) /\ a[i] = " " THEN natord_from(a, b, i + 1, j)
    ELSE IF j <= Len(b) /\ b[j] = " " THEN natord_from(a, b, i, j + 1)
    ELSE IF i > Len(a) /\ j > Len(b) THEN 0
    ELSE IF i > Len(a) THEN -1
    ELSE IF j > Len(b) THEN 1
    ELSE IF IsDigit(a[i]) /\ IsDigit(b[j])
         THEN LET r == IF a[i] = "0" \/ b[j] = "0"
                       THEN digits_left(a, b, i, j)
                       ELSE digits_right(a, b, i, j, Sign(Code(a[i]) - Code(b[j])))
              IN  IF r[1] # 0 THEN r[1] ELSE natord_from(a, b, r[2], r[3])
    ELSE IF a[i] # b[j] THEN Sign(Code(a[i]) - Code(b[j]))
    ELSE natord_from(a, b, i + 1, j + 1)

\* A bug to compare with: the names are compared character by character.
RECURSIVE lex_from(_, _, _)
lex_from(a, b, i) ==
    IF i > Len(a) /\ i > Len(b) THEN 0
    ELSE IF i > Len(a) THEN -1
    ELSE IF i > Len(b) THEN 1
    ELSE IF a[i] # b[i] THEN Sign(Code(a[i]) - Code(b[i]))
    ELSE lex_from(a, b, i + 1)

lex_compare(a, b) == lex_from(a, b, 1)

\* natord_compare(&a.to_string_lossy(), &b.to_string_lossy()) of two paths of
\* one directory: the directory's part is the same in both.
natord_compare(a, b) == natord_from(a, b, 1, 1)

\* files.sort_by(natord_compare), for names no two of which compare equal
RECURSIVE sort_by_natord(_)
sort_by_natord(nameSet) ==
    IF nameSet = {} THEN <<>>
    ELSE LET least == CHOOSE x \in nameSet :
                          \A y \in nameSet \ {x} : natord_compare(x, y) < 0
         IN  <<least>> \o sort_by_natord(nameSet \ {least})

\* A directory is a set of entries [name, kind, depth]: kind is "file" or
\* "dir", depth 1 is directly inside the input directory.
\* list_slices_sorted: the files directly inside with an image extension, in
\* natural order; Err(Empty) when there is none.
list_slices_sorted(dir) ==
    LET picked == { e.name : e \in { x \in dir :
                        /\ x.depth = 1
                        /\ x.kind = "file"
                        /\ HasExtension(x.name)
                        /\ to_lowercase(extension(x.name)) \in ImageExts } }
    IN  IF picked = {}
        THEN [mode |-> "directory", err |-> "Empty", files |-> <<>>]
        ELSE [mode |-> "directory", err |-> "", files |-> sort_by_natord(picked)]

\* A bug to compare with: the range of sequence numbers leaves out seq_end.
seq_range_exclusive(seq_begin, seq_end) == seq_begin..(seq_end - 1)

\* seq_begin..=seq_end
seq_range(seq_begin, seq_end) == seq_begin..seq_end

\* filepath.exists(): an entry of that name directly inside the directory
path_exists(dir, name) == \E e \in dir : e.depth = 1 /\ e.name = name

\* The loop of pattern mode from `seq` on.
RECURSIVE pattern_from(_, _, _)
pattern_from(dir, p, seq) ==
    IF seq \notin seq_range(p.seq_begin, p.seq_end) THEN <<>>
    ELSE (IF path_exists(dir, PatternName(p.prefix, seq, p.file_type, p.index_length))
          THEN <<PatternName(p.prefix, seq, p.file_type, p.index_length)>>
          ELSE <<>>)
         \o pattern_from(dir, p, seq + 1)

\* The five optional arguments of pattern mode.
PatternParams == {"prefix", "file_type", "seq_begin", "seq_end", "index_length"}

\* The selection of the slice sequence: pattern mode when all five arguments
\* are given (p.given names those that are Some), else directory mode.
select_files(dir, p) ==
    IF p.given = PatternParams
    THEN [mode |-> "pattern", err |-> "", files |-> pattern_from(dir, p, p.seq_begin)]
    ELSE list_slices_sorted(dir)

\* ------------------------------------------------------ the inputs tried
\* Widths and heights around the threshold and its doublings.
Sizes == {0, 1, 250, 499, 500, 501, 999, 1000, 1001, 1002, 1003, 2000, 2001,
          2002, 2003, 2004, 3000, 4000, 4001, 4007, 4008, 8000, 8001, 65535}

\* Pixel values at both ends and in the middle of the element's range.
Pixels(bits) == {0, 1, 2 ^ (bits - 1), 2 ^ bits - 2, 2 ^ bits - 1}
MergePixels(bits) ==
    {0, 1, 2, 3, 2 ^ (bits - 1) - 1, 2 ^ (bits - 1), 2 ^ bits - 3, 2 ^ bits - 2,
     2 ^ bits - 1}

\* An image of sw x sh pixels whose top-left 2x2 block is a, b / c, d and whose
\* other pixels are `fill`, row by row.
Image(sw, sh, a, b, c, d, fill) ==
    [k \in 1..(sw * sh) |->
        LET y == (k - 1) \div sw
            x == (k - 1) % sw
        IN  IF y = 0 /\ x = 0 THEN a
            ELSE IF y = 0 /\ x = 1 THEN b
            ELSE IF y = 1 /\ x = 0 THEN c
            ELSE IF y = 1 /\ x = 1 THEN d
            ELSE fill]

\* The name of an entry made of a stem, a number written with at least `pad`
\* digits (none when num is -1) and an extension (none when empty).
EntryName(stem, num, pad, ext) ==
    stem \o (IF num < 0 THEN <<>> ELSE ZeroPad(num, pad))
         \o (IF ext = <<>> THEN <<>> ELSE <<".">> \o ext)

Entry(stem, num, pad, ext, kind, depth) ==
    [name |-> EntryName(stem, num, pad, ext), stem |-> stem, num |-> num, pad |-> pad,
     ext |-> ext, kind |-> kind, depth |-> depth]

\* Entries a pattern over prefix "s" and extension "tif" may or may not match.
PatternEntries ==
    { Entry(<<"s">>, 5, 3, <<"t", "i", "f">>, "file", 1),
      Entry(<<"s">>, 7, 3, <<"t", "i", "f">>, "file", 1),
      Entry(<<"s">>, 6, 1, <<"t", "i", "f">>, "file", 1),
      Entry(<<"s">>, 10, 1, <<"t", "i", "f">>, "file", 1),
      Entry(<<"t">>, 8, 3, <<"t", "i", "f">>, "file", 1) }

\* Entries of other kinds: an upper-case extension, another image type, a text
\* file, a file without extension, the .thumbnail directory and a file in it,
\* a directory named like an image.
OtherEntries ==
    { Entry(<<"s">>, 2, 1, <<"T", "I", "F">>, "file", 1),
      Entry(<<"s">>, 20, 1, <<"t", "i", "f">>, "file", 1),
      Entry(<<"s">>, 3, 1, <<"t", "x", "t">>, "file", 1),
      Entry(<<"R", "E", "A", "D", "M", "E">>, -1, 0, <<>>, "file", 1),
      Entry(<<".", "t", "h", "u", "m", "b", "n", "a", "i", "l">>, -1, 0, <<>>, "dir", 1),
      Entry(<<>>, 0, 6, <<"t", "i", "f">>, "file", 3),
      Entry(<<"s">>, 4, 1, <<"p", "n", "g">>, "dir", 1) }

\* What the caller passes besides the directory: all five pattern arguments,
\* or all but one, or none.
GivenSets == {PatternParams, {}} \cup { PatternParams \ {x} : x \in PatternParams }

SelectArgs ==
    { [dir |-> dir,
       p |-> [given |-> given, prefix |-> <<"s">>, file_type |-> <<"t", "i", "f">>,
              seq_begin |-> b, seq_end |-> e, index_length |-> width]] :
        dir \in SUBSET PatternEntries, given \in GivenSets,
        b \in 5..7, e \in 4..10, width \in {1, 3} }
    \cup
    { [dir |-> dir \cup rest,
       p |-> [given |-> {}, prefix |-> <<>>, file_type |-> <<>>,
              seq_begin |-> 0, seq_end |-> 0, index_length |-> 0]] :
        dir \in SUBSET OtherEntries, rest \in SUBSET { x \in PatternEntries : x.pad = 1 } }

CalcArgs == { [w |-> w, h |-> h] : w \in Sizes, h \in Sizes }

DownscaleArgs ==
    { [bits |-> bits, sw |-> sw, sh |-> sh, a |-> a, b |-> b, c |-> c, d |-> d] :
        bits \in {8}, sw \in {2, 3}, sh \in {2, 3},
        a \in Pixels(8), b \in Pixels(8), c \in Pixels(8), d \in Pixels(8) }
    \cup
    { [bits |-> bits, sw |-> sw, sh |-> sh, a |-> a, b |-> b, c |-> c, d |-> d] :
        bits \in {16}, sw \in {2, 3}, sh \in {2, 3},
        a \in Pixels(16), b \in Pixels(16), c \in Pixels(16), d \in Pixels(16) }

MergeArgs ==
    { [bits |-> 8, x |-> x, y |-> y] : x \in MergePixels(8), y \in MergePixels(8) }
    \cup
    { [bits |-> 16, x |-> x, y |-> y] : x \in MergePixels(16), y \in MergePixels(16) }

\* ------------------------------------------------------------- one call
\* First slices whose levels give the downscale a narrow, a low, an odd and
\* an even source: <<width, height>>, one side above the threshold.
ShapeFirst ==
    { <<1, 501>>, <<501, 1>>, <<2, 501>>, <<501, 2>>, <<3, 1001>>, <<1001, 3>>,
      <<5, 2004>>, <<7, 4001>>, <<4001, 7>>, <<501, 503>>, <<502, 6>>, <<6, 1003>> }

\* The sources of the downscale in a build: the first slice's size, halved
\* once per level before the one at hand.
ShapeArgs ==
    { a \in { [sw |-> Shr(f[1], l - 1), sh |-> Shr(f[2], l - 1), level |-> l,
               w0 |-> f[1], h0 |-> f[2]] :
                 f \in ShapeFirst, l \in 1..calc_levels_needed(4001, 4001) } :
        /\ a.level <= calc_levels_needed(a.w0, a.h0)
        /\ a.sw >= 1 /\ a.sh >= 1 }

\* The output of a pair as the step finds it: not in existing_files; listed
\* but gone; listed with the size of the level, or with another size.
FileKinds == {"unlisted", "gone", "same", "wider", "lower", "unhalved", "empty"}
FileOfKind(kind, current_w, current_h) ==
    CASE kind = "same"     -> << [w |-> current_w \div 2, h |-> current_h \div 2] >>
      [] kind = "wider"    -> << [w |-> current_w \div 2 + 1, h |-> current_h \div 2] >>
      [] kind = "lower"    -> << [w |-> current_w \div 2, h |-> current_h \div 2 - 1] >>
      [] kind = "unhalved" -> << [w |-> current_w, h |-> current_h] >>
      [] kind = "empty"    -> << [w |-> 0, h |-> 0] >>
      [] OTHER             -> <<>>

PairArgs ==
    { [w |-> a.w, h |-> a.h, level |-> l, kind |-> k] :
        a \in CalcArgs, l \in 1..calc_levels_needed(65535, 65535), k \in FileKinds }

InitFn ==
    /\ variant = "grouped" /\ hasCb = FALSE /\ slices = <<>>
    /\ InitBuild
    /\ PumpIdle
    /\ res = <<>>
    /\ \/ op = "calc_levels_needed" /\ arg \in CalcArgs
       \/ op = "downscale_half" /\ arg \in DownscaleArgs
       \/ op = "avg" /\ arg \in MergeArgs
       \/ op = "select" /\ arg \in SelectArgs
       \/ op = "level_loop" /\ arg \in CalcArgs
       \/ op = "downscale_shape" /\ arg \in ShapeArgs
       \/ /\ op = "pair_step" /\ arg \in PairArgs
          /\ arg.level <= calc_levels_needed(arg.w, arg.h)

buildVars == <<variant, hasCb, slices, replaced, treeVars, pc, status, existing,
               doneUnits, groupVars, histVars, pumpVars>>

\* calc_levels_needed(w, h), then get_group_size of its result.
CallCalcLevels ==
    /\ op = "calc_levels_needed" /\ res = <<>>
    /\ res' = << [levels |-> calc_levels_needed(arg.w, arg.h),
                  group_size |-> get_group_size(calc_levels_needed(arg.w, arg.h))] >>
    /\ UNCHANGED <<op, arg, buildVars>>

\* downscale_half_u8 / _u16 of an image into a buffer of (sw >> 1) * (sh >> 1).
CallDownscale ==
    /\ op = "downscale_half" /\ res = <<>>
    /\ res' = << downscale_half(
                    Image(arg.sw, arg.sh, arg.a, arg.b, arg.c, arg.d, 2 ^ arg.bits - 1),
                    arg.sw, (arg.sw \div 2) * (arg.sh \div 2), arg.bits) >>
    /\ UNCHANGED <<op, arg, buildVars>>

\* The merge of two pixels, by the grouped builder and by the per-level one.
CallAvg ==
    /\ op = "avg" /\ res = <<>>
    /\ res' = << [grouped |-> avg_slices(<<arg.x, arg.y>>, arg.bits),
                  perlevel |-> avg_two_inplace(arg.x, arg.y, arg.bits)] >>
    /\ UNCHANGED <<op, arg, buildVars>>

\* The selection of the slice sequence at the head of a build.
CallSelect ==
    /\ op = "select" /\ res = <<>>
    /\ res' = << select_files(arg.dir, arg.p) >>
    /\ UNCHANGED <<op, arg, buildVars>>

\* The level after which the loop over the levels 1..=L of a group breaks
\* because the halved size is small enough, from level lvl on with current
\* size w x h; 0 when it runs through level L without breaking.
RECURSIVE break_level(_, _, _, _)
break_level(w, h, lvl, L) ==
    IF lvl > L THEN 0
    ELSE IF small_enough(w \div 2, h \div 2) THEN lvl
    ELSE break_level(w \div 2, h \div 2, lvl + 1, L)

\* The sizes the loop over the levels goes through for a first slice of
\* arg.w x arg.h, with levels_needed as the build computes it.
CallLevelLoop ==
    /\ op = "level_loop" /\ res = <<>>
    /\ res' = << [levels |-> calc_levels_needed(arg.w, arg.h),
                  stop |-> break_level(arg.w, arg.h, 1,
                                       calc_levels_needed(arg.w, arg.h))] >>
    /\ UNCHANGED <<op, arg, buildVars>>

\* current_w at the head of level lvl: the first slice's width, halved at the
\* end of each level before it (the same for current_h).
RECURSIVE size_at_level(_, _)
size_at_level(x0, lvl) == IF lvl <= 1 THEN x0 ELSE size_at_level(x0, lvl - 1) \div 2

\* ImageBuffer::from_raw(w, h, buf) is Some: the buffer holds w * h elements
\* at least.  Otherwise write_tiff_preserve_depth returns ThumbError::Dim.
from_raw_ok(w, h, len) == w * h <= len

\* What a pair of a level does with its output: computed into a buffer of
\* new_w * new_h elements, written and pushed when the name is not in
\* existing_files; else read back when the file is there, and pushed when its
\* size is new_w x new_h.  file is <<>> or <<[w, h]>>.
pair_step(current_w, current_h, listed, file) ==
    LET new_w == current_w \div 2
        new_h == current_h \div 2
        computed == [w |-> new_w, h |-> new_h, len |-> new_w * new_h, from |-> "computed"]
    IN  IF ~listed
        THEN IF from_raw_ok(new_w, new_h, computed.len)
             THEN [written |-> <<computed>>, pushed |-> <<computed>>, err |-> "none"]
             ELSE [written |-> <<>>, pushed |-> <<>>, err |-> "Dim"]
        ELSE IF file # <<>> /\ read_back_ok(file[1], new_w, new_h)
             THEN [written |-> <<>>,
                   pushed |-> << [w |-> file[1].w, h |-> file[1].h,
                                  len |-> file[1].w * file[1].h, from |-> "file"] >>,
                   err |-> "none"]
             ELSE [written |-> <<>>, pushed |-> <<>>, err |-> "none"]

\* The four indices of src read for pixel x of row y of dst (from 0).
src_indices(sw, y, x) ==
    LET base0 == (2 * y) * sw
        base1 == (2 * y + 1) * sw
        sx0 == 2 * x
        sx1 == sx0 + 1
    IN  {base0 + sx0, base0 + sx1, base1 + sx0, base1 + sx1}

\* dst.par_chunks_mut(dw).enumerate(): a chunk size of 0 panics; else row y
\* is dst[y * dw .. min((y + 1) * dw, len)], one row per chunk.
downscale_shape(sw, sh, dstLen) ==
    LET dw == sw \div 2
    IN  IF dw = 0
        THEN [panic |-> TRUE, dw |-> dw, rows |-> 0, dstLen |-> dstLen]
        ELSE [panic |-> FALSE, dw |-> dw, rows |-> (dstLen + dw - 1) \div dw,
              dstLen |-> dstLen]

\* downscale_half_u8 / _u16 of a source of arg.sw x arg.sh into the buffer
\* the level allocates, of new_w * new_h elements.
CallDownscaleShape ==
    /\ op = "downscale_shape" /\ res = <<>>
    /\ res' = << downscale_shape(arg.sw, arg.sh, (arg.sw \div 2) * (arg.sh \div 2)) >>
    /\ UNCHANGED <<op, arg, buildVars>>

\* One pair of level arg.level of a build whose first slice is arg.w x arg.h.
CallPairStep ==
    /\ op = "pair_step" /\ res = <<>>
    /\ LET current_w == size_at_level(arg.w, arg.level)
           current_h == size_at_level(arg.h, arg.level)
       IN  res' = << pair_step(current_w, current_h, arg.kind # "unlisted",
                               FileOfKind(arg.kind, current_w, current_h)) >>
    /\ UNCHANGED <<op, arg, buildVars>>

NextFn ==
    \/ CallDownscaleShape
    \/ CallPairStep
    \/ CallCalcLevels
    \/ CallDownscale
    \/ CallAvg
    \/ CallSelect
    \/ CallLevelLoop

SpecFn == InitFn /\ [][NextFn]_vars

\* ================================================================ claims
\* The build is the grouped variant.
Grouped == variant = "grouped"

CeilDiv(a, b) == (a + b - 1) \div b
Count100 ==
    LET full == Pct100
    IN  Cardinality({ i \in 1..Len(reported) : reported[i] = full })
NonDecreasing(seq) == \A i \in 1..(Len(seq) - 1) : seq[i] <= seq[i + 1]

\* The outputs one build writes on an empty tree: a group of gs slices has
\* CeilDiv(gs, 2^l) buffers after level l and the level loop runs while the
\* level has a pair.
FreshKeys ==
    UNION { { <<l, global_idx(g * GroupSize, l, p)>> :
                p \in 0..(CeilDiv(Min(GroupSize, NFiles - g * GroupSize), 2 ^ l) - 1) } :
            <<g, l>> \in { x \in (0..(NGroups - 1)) \X (1..LevelsNeeded) :
                CeilDiv(Min(GroupSize, NFiles - x[1] * GroupSize), 2 ^ (x[2] - 1)) >= 2 } }

\* The slices the grouped build merges into the output idx of level l.
FreshSrc(l, idx) == { i \in 0..(NFiles - 1) : i \div (2 ^ l) = idx }

\* A first build on an empty tree, with no false return, leaves FreshKeys,
\* each file derived from FreshSrc.
FreshRunTree ==
    (Grouped /\ run = 1 /\ pc = "done" /\ status = "ok" /\ ~obsFalse /\ deletes = 0)
        => /\ Keys(disk) = FreshKeys
           /\ \A f \in disk : f.src = FreshSrc(f.level, f.idx)

\* The build is running, or has ended and nothing was deleted since.
Undisturbed == pc # "done" \/ treeState \in {"complete", "cancelled"}

\* C1 (idempotence): a build that starts from the tree left by a build that
\* completed with no false return and no error writes no output file, and the
\* set of output files stays what it was at its start, as long as the observer
\* returns no false.
C1_Idempotence ==
    (Grouped /\ startState = "complete" /\ ~obsFalse /\ LevelsNeeded >= 1
        /\ Undisturbed)
        => (written = {} /\ Keys(disk) = startKeys)

\* A second build that has read pairs back (its group was not fast-skipped)
\* and has ended without writing.
C1_Witness ==
    /\ Grouped
    /\ pc = "done" /\ status = "ok" /\ run >= 2
    /\ startState = "complete" /\ treeState = "complete"
    /\ hasCb /\ disk # {} /\ written = {}
    /\ Len(reported) > NGroups + 2

\* C2 (resume correctness): after one output file of a complete tree has been
\* deleted, the next build with no false return writes, at the level of the
\* deleted file, exactly that file, and the file is again what it was (same
\* source slices, size and depth).
C2_ResumeRegenerates ==
    (Grouped /\ pc = "done" /\ status = "ok" /\ startState = "minus1" /\ ~obsFalse
        /\ treeState = "complete")
        => /\ { k \in written : k[1] = deleted.level }
                = { <<deleted.level, deleted.idx>> }
           /\ deleted \in disk

\* C3 (cancellation stops the build): once a false return has been acted on,
\* the build writes no further file and goes to no further group: its next
\* step is its return.
C3_CancelStops ==
    [][ (cancelled /\ pc # "done")
            => (written' = written /\ doneUnits' = doneUnits
                /\ pc' \in {"final", "done"}) ]_vars

\* C4 (cancel then resume): a build with no false return that starts from the
\* tree left by a cancelled build ends with the tree of an uninterrupted
\* build and a last invocation with 100.0.
C4_CancelThenResume ==
    (Grouped /\ pc = "done" /\ status = "ok" /\ startState = "cancelled"
        /\ ~obsFalse /\ treeState = "complete")
        => /\ Keys(disk) = FreshKeys
           /\ hasCb => (reported # <<>> /\ Last(reported) = Pct100)

\* C5 (progress monotonicity): the percentages delivered in a build never
\* decrease, and a build that returns success has delivered 100.0 last.
C5_Monotone ==
    /\ NonDecreasing(reported)
    /\ (pc = "done" /\ status = "ok" /\ hasCb)
           => (reported # <<>> /\ Last(reported) = Pct100)

\* A resumed build that fast-skipped group 0, processed group 1 and delivered
\* a value strictly between 0.0 and 100.0.
C5_Witness ==
    /\ Grouped
    /\ pc = "done" /\ status = "ok" /\ hasCb /\ run >= 2
    /\ LevelsNeeded = 1 /\ <<1, 0>> \in startKeys /\ <<1, 1>> \in written
    /\ \E i \in 1..Len(reported) : 0 < reported[i] /\ reported[i] < Pct100

\* C6 as claimed: a build that completes with no false return and no error
\* delivers 100.0 exactly once, as its last invocation.
C6_ExactlyOnce100 ==
    (Grouped /\ pc = "done" /\ status = "ok" /\ hasCb /\ ~obsFalse)
        => (Count100 = 1 /\ Last(reported) = Pct100)

\* C6 as amended: such a build delivers 100.0 as its last invocation, and
\* 100.0 is delivered once or twice, the invocations that carry it being the
\* last ones of the build.
C6_Terminal100 ==
    (Grouped /\ pc = "done" /\ status = "ok" /\ hasCb /\ ~obsFalse)
        => /\ reported # <<>> /\ Last(reported) = Pct100
           /\ Count100 \in {1, 2}
           /\ LET full == Pct100
                  count == Count100
              IN  \A i \in 1..Len(reported) :
                      reported[i] = full => i > Len(reported) - count

\* A build that has delivered 100.0 twice.
C6_Witness ==
    /\ Grouped
    /\ pc = "done" /\ status = "ok" /\ hasCb /\ ~obsFalse
    /\ Count100 = 2

\* C7 (report threshold): between the initial 0.0 and the final invocation,
\* every delivered value differs from the one delivered before it by more
\* than 1.0, except possibly the last update before the final invocation.
C7_Threshold ==
    (pc = "done" /\ status = "ok" /\ hasCb /\ ~obsFalse /\ LevelsNeeded >= 1)
        => \A i \in 2..(Len(reported) - 2) :
               Abs(reported[i] - reported[i - 1]) > PctDelta

\* C8 (callback value range): with at least one slice and one level, the first
\* invocation carries 0.0, every delivered value is in [0, 100], and the
\* accumulated progress never exceeds the denominator.
C8_Range ==
    Grouped =>
        /\ (hasCb /\ NFiles >= 1 /\ LevelsNeeded >= 1 /\ reported # <<>>)
               => reported[1] = 0
        /\ LET full == Pct100
           IN  \A i \in 1..Len(reported) : 0 <= reported[i] /\ reported[i] <= full
        /\ LevelsNeeded >= 1 => (0 <= doneUnits /\ doneUnits <= TotalUnits)

\* A later build of at least two levels whose progress has reached the
\* denominator after several deliveries.
C8_Witness ==
    /\ Grouped
    /\ pc = "final" /\ hasCb /\ run >= 2 /\ LevelsNeeded >= 2
    /\ doneUnits = TotalUnits /\ Len(reported) >= 4

\* C9 (observer return interpretation): a step that invokes the observer and
\* gets anything but boolean false (true, a non-boolean, an error) cancels
\* nothing, does not fail the build, and goes on with the pair at hand.
C9_OnlyFalseCancels ==
    [][ (Len(reported') = Len(reported) + 1 /\ lastRet' # "false")
            => /\ cancelled' = cancelled
               /\ status' # "err"
               /\ pc = "paircheck" => pc' = "pair"
               /\ pc = "pair" => pc' \in {"paircheck", "odd"} ]_vars

\* The observer has raised an error on a cancellation check and the pair is
\* processed all the same.
C9_Witness ==
    /\ pc = "pair" /\ lastRet = "raise" /\ ~cancelled /\ status = "none"

\* C10 (empty input): with no slice selected, in either mode, the build
\* returns success, has invoked the observer exactly once, with 100, and has
\* written nothing.
C10_EmptyIsSuccess ==
    (pc = "done" /\ NFiles = 0)
        => /\ status = "ok"
           /\ hasCb => reported = <<Pct100>>
           /\ disk = {} /\ dirs = {}

\* C11 (errors abort the run): when a slice of the group to load cannot be
\* decoded or has another size, or a read or write of an output file fails,
\* the build ends there with a failure: no later group is processed, nothing
\* more is written, and every file written before is still on disk.
C11_ErrorsAbort ==
    [][ /\ ( Grouped
             /\ \/ /\ pc = "group" /\ GroupLen > 0
                    /\ ~all_exist(existing, GroupLen, GroupStart, LevelsNeeded)
                    /\ FirstBadInGroup # 0
                \/ ioFails' > ioFails )
           => /\ pc' = "done" /\ status' = "err"
              /\ groupIdx' = groupIdx
              /\ disk' = disk /\ written' = written
              /\ written \subseteq Keys(disk')
        /\ (pc = "done" /\ status = "err" /\ run' = run)
           => /\ written' = written /\ groupIdx' = groupIdx
              /\ status' = "err" /\ reported' = reported ]_vars

\* The second of three groups has failed on a bad slice: the first group's
\* output is on disk and the third group is never reached.
C11_Witness ==
    /\ Grouped
    /\ pc = "done" /\ status = "err"
    /\ groupIdx >= 1 /\ groupIdx + 1 < NGroups
    /\ FirstBadInGroup # 0
    /\ written # {} /\ written \subseteq Keys(disk)

\* C12 (dimension invariant), for the grouped build of at least one level: a
\* build whose slice sequence holds a slice of another width or height than
\* the first slice's, and whose observer never returns false, ends with a
\* failure, whatever the output tree holds.
C12_DimensionEnforced ==
    ( Grouped /\ pc = "done" /\ LevelsNeeded >= 1 /\ ~obsFalse
      /\ replaced # "pending"
      /\ \E i \in 1..NFiles : slices[i].w # W0 \/ slices[i].h # H0 )
        => status = "err"

\* C13 (canonical bit depth): every file written in a build of the grouped
\* builder, with no false return, has the bit depth of the first slice of the
\* sequence.
C13_CanonicalDepth ==
    (Grouped /\ ~obsFalse) =>
        \A f \in disk : <<f.level, f.idx>> \in written => f.depth = slices[1].depth

\* C14 (global index naming): every file written at level l by the group
\* starting at slice s with local index p is named floor(s / 2^l) + p, that
\* index is below ceil(N / 2^l), and no two distinct (group, local index)
\* pairs of a build give the same index at the same level.
C14_GlobalIndex ==
    Grouped =>
        /\ \A a \in names :
               /\ a[4] = (a[2] \div (2 ^ a[1])) + a[3]
               /\ a[4] < CeilDiv(NFiles, 2 ^ a[1])
        /\ \A a, b \in names :
               (a[1] = b[1] /\ a[4] = b[4]) => (a[2] = b[2] /\ a[3] = b[3])
        /\ written = { <<a[1], a[4]>> : a \in names }

\* A finished build in which two groups have written at the same level.
C14_Witness ==
    /\ Grouped
    /\ pc = "done" /\ status = "ok"
    /\ \E a, b \in names : a[1] = b[1] /\ a[2] # b[2]

\* C20 (the two designs agree): a first build of the per-level builder on an
\* empty output directory, over slices of one size and depth, leaves the files
\* the grouped builder leaves for the same input, each derived from the same
\* slices.
C20_SameOutputs ==
    (~Grouped /\ run = 1 /\ pc = "done" /\ status = "ok" /\ deletes = 0
        /\ \A i \in 1..NFiles : slices[i] = slices[1])
        => /\ Keys(disk) = FreshKeys
           /\ \A f \in disk : f.src = FreshSrc(f.level, f.idx)

\* The least of four values, and the greatest.
Min4(a, b, c, d) == Min(Min(a, b), Min(c, d))
Max4(a, b, c, d) == -Min4(-a, -b, -c, -d)

\* C15 (level planning): calc_levels_needed(w, h) is the least k >= 0 with
\* floor(w / 2^k) <= 500 and floor(h / 2^k) <= 500; it is 0 when both sides
\* are at most 500 and 3 for 4000x3000; group_size is 2^k.
C15_LevelsNeeded ==
    (op = "calc_levels_needed" /\ res # <<>>) =>
        LET k == res[1].levels
        IN  /\ k >= 0
            /\ arg.w \div (2 ^ k) <= 500 /\ arg.h \div (2 ^ k) <= 500
            /\ \A j \in 0..(k - 1) :
                   arg.w \div (2 ^ j) > 500 \/ arg.h \div (2 ^ j) > 500
            /\ (arg.w <= 500 /\ arg.h <= 500) => k = 0
            /\ (arg.w = 4000 /\ arg.h = 3000) => k = 3
            /\ res[1].group_size = 2 ^ k

\* calc_levels_needed has returned 3 for 4000x3000.
C15_Witness ==
    /\ op = "calc_levels_needed" /\ res # <<>>
    /\ arg.w = 4000 /\ arg.h = 3000 /\ res[1].levels = 3

\* C16 (rounding law of the spatial downscale): the output pixel of a 2x2
\* block a, b, c, d is (a + b + c + d + 2) div 4, lies between the least and
\* the greatest of the four, and is v when all four are v; the buffer has
\* one pixel for a 2x2 or 3x3 image.
C16_RoundingLaw ==
    (op = "downscale_half" /\ res # <<>>) =>
        /\ Len(res[1]) = 1
        /\ res[1][1] = (arg.a + arg.b + arg.c + arg.d + 2) \div 4
        /\ Min4(arg.a, arg.b, arg.c, arg.d) <= res[1][1]
        /\ res[1][1] <= Max4(arg.a, arg.b, arg.c, arg.d)
        /\ (arg.a = arg.b /\ arg.b = arg.c /\ arg.c = arg.d) => res[1][1] = arg.a

\* A 16-bit block whose sum does not fit 16 bits has been downscaled.
C16_Witness ==
    /\ op = "downscale_half" /\ res # <<>>
    /\ arg.bits = 16 /\ arg.sw = 3
    /\ arg.a + arg.b + arg.c + arg.d + 2 >= 2 ^ 16
    /\ res[1][1] = 65535

\* C17 (merge law): the merge of two pixels x, y by the grouped builder is
\* (x + y + 1) >> 1, the same as the per-level builder's; it is x when
\* y = x, 1 for 0 and 1, the same for y, x, and fits the element's width.
C17_MergeLaw ==
    (op = "avg" /\ res # <<>>) =>
        /\ res[1].grouped = (arg.x + arg.y + 1) \div 2
        /\ res[1].perlevel = res[1].grouped
        /\ arg.x = arg.y => res[1].grouped = arg.x
        /\ (arg.x = 0 /\ arg.y = 1) => res[1].grouped = 1
        /\ res[1].grouped = avg_slices(<<arg.y, arg.x>>, arg.bits)
        /\ res[1].grouped <= 2 ^ arg.bits - 1

\* The two greatest 16-bit values, one apart, have been merged.
C17_Witness ==
    /\ op = "avg" /\ res # <<>>
    /\ arg.bits = 16 /\ arg.x = 65534 /\ arg.y = 65535
    /\ res[1].grouped = 65535

\* The elements of a set of numbers in ascending order.
RECURSIVE Ascending(_)
Ascending(nums) ==
    IF nums = {} THEN <<>>
    ELSE LET least == CHOOSE x \in nums : \A y \in nums : x <= y
         IN  <<least>> \o Ascending(nums \ {least})

NumDigits(n) == IF n < 10 THEN 1 ELSE IF n < 100 THEN 2 ELSE 3
Max(a, b) == IF a > b THEN a ELSE b

\* The sequence numbers of [seq_begin, seq_end] for which the directory holds
\* the file of the pattern: same prefix and extension, the number written
\* with index_length digits (more when it has more).
PresentSeqs(dir, p) ==
    { i \in p.seq_begin..p.seq_end :
        \E e \in dir :
            /\ e.depth = 1 /\ e.stem = p.prefix /\ e.ext = p.file_type /\ e.num = i
            /\ Max(e.pad, NumDigits(i)) = Max(p.index_length, NumDigits(i)) }

\* C18 (pattern-mode selection): with all five arguments given the selection
\* is prefix + zero-padded(i) + "." + extension for the i of [begin, end]
\* whose file exists, in ascending order of i, the others left out; with one
\* of the five missing the selection is made in directory mode.
C18_PatternMode ==
    (op = "select" /\ res # <<>>) =>
        IF arg.p.given = PatternParams
        THEN LET want == Ascending(PresentSeqs(arg.dir, arg.p))
             IN  /\ res[1].mode = "pattern"
                 /\ res[1].err = ""
                 /\ Len(res[1].files) = Len(want)
                 /\ \A k \in 1..Len(want) :
                        res[1].files[k] = arg.p.prefix \o ZeroPad(want[k], arg.p.index_length)
                                            \o <<".">> \o arg.p.file_type
        ELSE res[1].mode = "directory"

\* begin = 5, end = 8, width = 3 with s005.tif and s007.tif among the files:
\* exactly those two are selected, in this order.
C18_Witness ==
    /\ op = "select" /\ res # <<>>
    /\ arg.p.given = PatternParams
    /\ arg.p.seq_begin = 5 /\ arg.p.seq_end = 8 /\ arg.p.index_length = 3
    /\ \E e \in arg.dir : e.num = 6
    /\ res[1].files = << <<"s", "0", "0", "5", ".", "t", "i", "f">>,
                         <<"s", "0", "0", "7", ".", "t", "i", "f">> >>

\* The entries directory mode is to select.
ImageFiles(dir) ==
    { e \in dir : e.depth = 1 /\ e.kind = "file" /\ to_lowercase(e.ext) \in ImageExts }

\* The entry of a directory that has the given name.
EntryOf(dir, name) == CHOOSE e \in dir : e.name = name

\* C19 (directory-mode selection): the selection holds exactly the regular
\* files directly inside the directory whose extension, in lower case, is
\* an image extension, each once; of two names that differ only in their
\* number, written without zeros in front, the lesser number comes first;
\* with no such file the selection fails with Empty.
C19_DirectoryMode ==
    (op = "select" /\ res # <<>> /\ res[1].mode = "directory") =>
        LET want == ImageFiles(arg.dir)
            got == res[1].files
        IN  /\ (want = {}) <=> (res[1].err = "Empty")
            /\ { got[k] : k \in 1..Len(got) } = { e.name : e \in want }
            /\ Len(got) = Cardinality(want)
            /\ \A k, m \in 1..Len(got) :
                   LET x == EntryOf(arg.dir, got[k])
                       y == EntryOf(arg.dir, got[m])
                   IN  ( /\ x.stem = y.stem /\ x.ext = y.ext
                         /\ x.num >= 0 /\ y.num >= 0
                         /\ x.pad <= 1 /\ y.pad <= 1
                         /\ x.num < y.num ) => k < m

\* s6.tif, s10.tif and s2.TIF are selected in the order s2, s6, s10 from a
\* directory that also holds a text file and the .thumbnail directory.
C19_Witness ==
    /\ op = "select" /\ res # <<>> /\ res[1].mode = "directory"
    /\ \E e \in arg.dir : e.kind = "dir" /\ e.num < 0
    /\ \E e \in arg.dir : e.depth = 3
    /\ \E e \in arg.dir : e.ext = <<"t", "x", "t">>
    /\ res[1].files = << <<"s", "2", ".", "T", "I", "F">>,
                         <<"s", "6", ".", "t", "i", "f">>,
                         <<"s", "1", "0", ".", "t", "i", "f">> >>

RECURSIVE ReduceKeys(_, _, _, _, _, _)
ReduceKeys(k, start, lvl, L, w, h) ==
    IF lvl > L \/ k \div 2 = 0 THEN {}
    ELSE { <<lvl, global_idx(start, lvl, p)>> : p \in 0..((k \div 2) - 1) }
         \cup (IF k % 2 = 1 THEN { <<lvl, global_idx(start, lvl, k \div 2)>> } ELSE {})
         \cup (IF small_enough(w \div 2, h \div 2) THEN {}
               ELSE ReduceKeys((k + 1) \div 2, start, lvl + 1, L, w \div 2, h \div 2))

\* The files full processing of the group at hand writes.
GroupOutputs == ReduceKeys(GroupLen, GroupStart, 1, LevelsNeeded, W0, H0)

\* The files the skip check of the group at hand looks for.
TestedKeys ==
    { k \in (1..LevelsNeeded) \X (0..NFiles) :
        \E p \in 0..(total_at_level(GroupLen, k[1]) - 1) :
            k[2] = global_idx(GroupStart, k[1], p) }

\* The step at hand leaves the group without decoding a slice of it.
GroupSkipped == pc = "group" /\ pc' \in {"group", "final"}

\* C22 (fast skip is exact): a group is skipped, no slice of it decoded, if
\* and only if every file that full processing of the group writes was found
\* at the start of the build; the files the skip check looks for are the
\* files full processing writes.
C22_FastSkipExact ==
    [][ (Grouped /\ pc = "group")
            => /\ GroupSkipped <=> (GroupOutputs \subseteq existing)
               /\ TestedKeys = GroupOutputs ]_vars

\* C22, a second failure: a group of five slices of a complete tree from which
\* an odd-remainder output of level 2 was deleted is not skipped.
C22_SkipsWithMissingOutput ==
    [][ (Grouped /\ pc = "group" /\ GroupLen >= 2 /\ GroupSkipped)
            => GroupOutputs \subseteq Keys(disk) ]_vars

\* What the level loop adds to done_units for a group of k buffers of size
\* w x h from level lvl on: the weight of the level for each pair.
RECURSIVE ReduceWeight(_, _, _, _, _)
ReduceWeight(k, lvl, L, w, h) ==
    IF lvl > L \/ k \div 2 = 0 THEN 0
    ELSE (k \div 2) * Weight(lvl)
         + (IF small_enough(w \div 2, h \div 2) THEN 0
            ELSE ReduceWeight((k + 1) \div 2, lvl + 1, L, w \div 2, h \div 2))

\* Every group of the build passes the skip check.
EveryGroupSkipped ==
    \A g \in 0..(NGroups - 1) :
        all_exist(existing, Min(GroupSize, NFiles - g * GroupSize), g * GroupSize,
                  LevelsNeeded)

\* C23 (fast skip credits the group's full weight): the step that skips a
\* group adds to done_units what processing the group adds to it, and a build
\* on a complete tree in which every group is skipped has done_units equal to
\* total_units when it comes to the final invocation.
C23_SkipCreditsGroup ==
    [][ /\ (Grouped /\ pc = "group" /\ GroupSkipped)
            => doneUnits' - doneUnits
                   = ReduceWeight(GroupLen, 1, LevelsNeeded, W0, H0)
        /\ (Grouped /\ pc = "final" /\ startState = "complete" /\ EveryGroupSkipped)
            => doneUnits = TotalUnits ]_vars

\* Every slice decodes and has the size and depth of the first.
UniformSlices == \A i \in 1..NFiles : slices[i].ok /\ slices[i] = slices[1]

\* C24 (per-level normalisation): in a first build on an empty tree with no
\* false return, over slices of one size, done_units never exceeds
\* total_units and equals it after the last group: every level l has then
\* contributed its whole weight 0.125^(l-1).
C24_LevelNormalised ==
    (Grouped /\ run = 1 /\ ~obsFalse /\ LevelsNeeded >= 1 /\ UniformSlices)
        => /\ doneUnits <= TotalUnits
           /\ pc = "final" => doneUnits = TotalUnits

\* The level at hand has an odd number of buffers.
OddLevel == Len(currentImages) % 2 = 1

\* C25 (odd remainder handling): at a level of a group with an odd number k
\* of buffers, k = 1 included, the last buffer, downscaled and not merged, is
\* on disk after the level as the output of local index floor(k/2), and when
\* the group goes on to the next level it is the last of that level's
\* ceil(k/2) inputs.
C25_OddRemainder ==
    [][ /\ (Grouped /\ pc = "level" /\ OddLevel /\ pc' # "paircheck")
            => \E f \in disk' :
                   /\ <<f.level, f.idx>> = <<level, global_idx(GroupStart, level, 0)>>
                   /\ f.src = currentImages[1].src
        /\ (Grouped /\ pc = "odd" /\ OddLevel)
            => /\ \E f \in disk' :
                      /\ <<f.level, f.idx>>
                             = <<level, global_idx(GroupStart, level, pairs_in_level)>>
                      /\ f.src = Last(currentImages).src
               /\ pc' = "level"
                      => /\ Len(currentImages') = (Len(currentImages) + 1) \div 2
                         /\ Last(currentImages').src = Last(currentImages).src ]_vars

\* C25, on an empty tree only: the second conjunct of C25_OddRemainder for a
\* first build.
C25_OddRemainderFresh ==
    [][ (Grouped /\ pc = "odd" /\ OddLevel /\ run = 1)
            => /\ \E f \in disk' :
                      /\ <<f.level, f.idx>>
                             = <<level, global_idx(GroupStart, level, pairs_in_level)>>
                      /\ f.src = Last(currentImages).src
               /\ pc' = "level"
                      => /\ Len(currentImages') = (Len(currentImages) + 1) \div 2
                         /\ Last(currentImages').src = Last(currentImages).src ]_vars

\* C26 (output count per level): after a first build on an empty tree that
\* ends with success and no false return, every level l of 1..levels_needed
\* holds exactly the files of index 0 .. ceil(N / 2^l) - 1.
C26_OutputCount ==
    (Grouped /\ run = 1 /\ pc = "done" /\ status = "ok" /\ ~obsFalse
        /\ LevelsNeeded >= 1 /\ UniformSlices)
        => \A l \in 1..LevelsNeeded :
               { k[2] : k \in { x \in Keys(disk) : x[1] = l } }
                   = 0..(CeilDiv(NFiles, 2 ^ l) - 1)

\* The inputs of level lvl of the group at hand in a build on an empty tree:
\* the i-th holds the slices of the i-th block of 2^(lvl-1) slices of the group.
FreshInputs(lvl) ==
    [i \in 1..CeilDiv(GroupLen, 2 ^ (lvl - 1)) |->
        { s \in GroupStart..(GroupEnd - 1) :
            (s - GroupStart) \div (2 ^ (lvl - 1)) = i - 1 }]

\* C27 (read-back seeds the next level faithfully): whatever files existed at
\* the start of the build, the inputs of a level above the first are one
\* buffer for each output of the level below of this group, in the order of
\* their local indices, as in a build on an empty tree.
C27_ReadBackSeeds ==
    (Grouped /\ pc \in {"level", "paircheck", "pair", "odd"} /\ level >= 2)
        => [i \in 1..Len(currentImages) |-> currentImages[i].src] = FreshInputs(level)

\* C27, on an empty tree only: the inputs of the levels of a first build.
C27_FreshSeeds ==
    (Grouped /\ pc \in {"level", "paircheck", "pair", "odd"} /\ level >= 2 /\ run = 1)
        => [i \in 1..Len(currentImages) |-> currentImages[i].src] = FreshInputs(level)

\* C28 (the defensive early stop never cuts planned work): for a first slice
\* of w x h with levels_needed >= 1, the size after l halvings is at most
\* 500 x 500 at l = levels_needed and at no l below it, so the loop over the
\* levels of a group breaks on the size after level levels_needed only.
C28_EarlyStopAtPlan ==
    (op = "level_loop" /\ res # <<>> /\ res[1].levels >= 1)
        => /\ res[1].stop = res[1].levels
           /\ \A l \in 1..res[1].levels :
                  (Shr(arg.w, l) <= 500 /\ Shr(arg.h, l) <= 500) <=> l = res[1].levels

\* A first slice whose height is small enough two levels before its width.
C28_Witness ==
    /\ op = "level_loop" /\ res # <<>>
    /\ arg.w = 4000 /\ arg.h = 1000
    /\ res[1].levels = 3 /\ res[1].stop = 3

\* C28 in the build: while a group is reduced, the size after a level below
\* levels_needed is never at most 500 x 500.
C28_NoEarlyStopInBuild ==
    (Grouped /\ pc = "odd" /\ level < LevelsNeeded)
        => ~small_enough(curW \div 2, curH \div 2)

\* The buffer is the content of a file of level lvl that is on disk and was
\* written in this build or found when it started.
BackedByFile(buf, lvl) ==
    \E f \in disk :
        /\ f.level = lvl /\ f.src = buf.src /\ f.depth = buf.depth
        /\ <<f.level, f.idx>> \in written \cup startKeys

\* C29 (level ordering): every buffer handed to a level above the first, and
\* every buffer collected for the next level, is the content of a file of the
\* level below that is on disk at that moment, written in this build or
\* found at its start; and every file a running build has written above
\* level 1, in either builder, is made of files of the level below that are
\* on disk.
C29_LevelOrdering ==
    /\ (Grouped /\ pc \in {"level", "paircheck", "pair", "odd"})
           => /\ level >= 2 =>
                     \A i \in 1..Len(currentImages) :
                         BackedByFile(currentImages[i], level - 1)
              /\ \A i \in 1..Len(nextImages) : BackedByFile(nextImages[i], level)
    /\ pc # "done"
           => \A f \in disk :
                  (f.level >= 2 /\ <<f.level, f.idx>> \in written)
                      => \E g0, g1 \in disk :
                             /\ g0.level = f.level - 1 /\ g1.level = f.level - 1
                             /\ f.src = g0.src \cup g1.src

\* A resumed build is about to merge, at level 2, an output of level 1 that it
\* read back with one that it has written.
C29_Witness ==
    /\ Grouped
    /\ pc = "pair" /\ level = 2 /\ run = 2
    /\ \E i, j \in 1..Len(currentImages) :
           \E f, g \in disk :
               /\ f.level = 1 /\ f.src = currentImages[i].src
               /\ <<1, f.idx>> \in startKeys
               /\ g.level = 1 /\ g.src = currentImages[j].src
               /\ <<1, g.idx>> \in written

\* The step at hand produces or reuses an output: a pair, or the odd
\* remainder of a level with an odd number of buffers.
OutputStep ==
    \/ pc = "pair" /\ pc' # "done"
    \/ pc = "odd" /\ OddLevel

\* C30 (cancellation is checked at every output boundary), with an observer:
\* a step that produces or reuses an output, pair or odd remainder, adds the
\* weight of the level to done_units, and the observer is invoked after it
\* before another file is written: in the step itself, or because what
\* follows is a cancellation check, a new level, a new group or the end.
C30_CheckedAtEveryOutput ==
    [][ (Grouped /\ hasCb /\ OutputStep)
            => /\ doneUnits' = doneUnits + Weight(level)
               /\ \/ Len(reported') = Len(reported) + 1
                  \/ pc' \in {"paircheck", "level", "group", "final"} ]_vars

\* C31 (small-input run): when the first slice is at most 500 x 500, the
\* grouped build writes no file and creates no directory, invokes the
\* observer exactly once, with 100.0, and returns success whatever that
\* invocation returns.
C31_SmallInput ==
    (Grouped /\ pc = "done" /\ NFiles > 0 /\ slices[1].ok
        /\ W0 <= 500 /\ H0 <= 500)
        => /\ status = "ok"
           /\ disk = {} /\ dirs = {} /\ written = {}
           /\ hasCb => reported = <<100 * TotalUnits>>
           /\ ~cancelled

\* A second build over several small slices has ended with success although
\* the observer returned false to its only invocation.
C31_Witness ==
    /\ Grouped
    /\ pc = "done" /\ status = "ok" /\ run = 2
    /\ NFiles >= 2 /\ W0 <= 500 /\ H0 <= 500
    /\ hasCb /\ lastRet = "false" /\ Len(reported) = 1

\* Every level of the plan holds the outputs of index 0 .. pairs_expected - 1.
LevelsComplete ==
    \A l \in 1..Len(Units) :
        \A p \in 0..(Units[l] - 1) : <<l, p>> \in Keys(disk)

\* The files present when the build started are the first ones of their level.
StartIsPrefix ==
    \A k \in startKeys : \A p \in 0..k[2] : <<k[1], p>> \in startKeys

\* C32 (per-level builder, resume completeness): whatever files of a level
\* were present when the build started, a build that returns with success
\* leaves every level of the plan with the outputs of index
\* 0 .. pairs_expected - 1 and has written no file present at its start.
C32_PerLevelResume ==
    [][ (~Grouped /\ pc # "done" /\ pc' = "done" /\ status' = "ok"
            /\ NFiles > 0 /\ UniformSlices)
            => /\ LevelsComplete'
               /\ written' \cap startKeys' = {} ]_vars

\* C32, for a build started on an empty tree or on the first files of each
\* level only: the same conclusion.
C32_PerLevelResumePrefix ==
    [][ (~Grouped /\ pc # "done" /\ pc' = "done" /\ status' = "ok"
            /\ NFiles > 0 /\ UniformSlices /\ StartIsPrefix)
            => /\ LevelsComplete'
               /\ written' \cap startKeys' = {} ]_vars

\* C32: a per-level build that started on a level with a gap has returned
\* with success, has written over a file it found and has left the gap.
C32_GapLeft ==
    /\ ~Grouped /\ pc = "done" /\ status = "ok" /\ run = 2
    /\ UniformSlices /\ ~StartIsPrefix
    /\ written \cap startKeys # {}
    /\ ~LevelsComplete
    /\ deletes = 1 /\ ioFails = 0 /\ replaced = "no"

\* ================================================= the pump-thread variant
\* build_thumbnails of lib.rs, called from Python with the interpreter lock
\* held.  The calling thread computes the levels; the pump thread polls the
\* progress and invokes the observer, each invocation inside Python::with_gil.

\* The stacks tried: <<number of slices, width, height>>.
PumpStacks ==
    { <<0, 1000, 800>>, <<1, 1000, 800>>, <<2, 400, 300>>, <<2, 1000, 800>>,
      <<4, 1000, 800>>, <<5, 2000, 1100>>, <<320, 4000, 3000>>,
      <<20002, 1000, 800>> }

\* units of plan_levels, total_units and the weight of a level, the last two
\* times 8^(levels - 1).
PumpUnits == plan_levels(arg.n0, arg.w0, arg.h0)
PumpLevels == Len(PumpUnits)
PumpTotal == plan_total(PumpUnits)
PumpWeight(l) == plan_weight(PumpLevels, l)

\* The values given to the observer are kept times PumpScale.
PumpScale == IF PumpTotal = 0 THEN 1 ELSE PumpTotal
Full == 100 * PumpScale

\* percent(done_units, total_units) of lib.rs, times PumpScale
percent_units(done) == IF PumpTotal <= 0 THEN Full ELSE Min(100 * done, Full)

\* (pct - last_pct).abs() > 0.01
pct_changed(p, last) == 100 * Abs(p - last) > PumpScale

\* pct >= 99.99
near_full(p) == 100 * p >= 9999 * PumpScale

\* cb.bind(py).call1((v,)) by thread `by`
Deliver(by, v) ==
    delivered' = Append(delivered, [by |-> by, v |-> v, late |-> mainAt = "returned"])

\* build_thumbnails returns to Python, which has the lock from then on and
\* lets go of it while it runs.
PumpReturn(r) ==
    /\ mainAt' = "returned"
    /\ result' = r
    /\ gil' = "free"

InitPump ==
    /\ variant = "pump" /\ slices = <<>> /\ hasCb \in BOOLEAN
    /\ InitBuild
    /\ op = "build_thumbnails" /\ res = <<>>
    /\ \E st \in PumpStacks :
       LET units == plan_levels(st[1], st[2], st[3])
       IN  \E todo \in [1..Len(units) -> 0..MaxTodo] :
               /\ \A l \in 1..Len(units) : todo[l] <= units[l]
               /\ arg = [n0 |-> st[1], w0 |-> st[2], h0 |-> st[3],
                         found |-> [l \in 1..Len(units) |-> units[l] - todo[l]]]
    /\ mainAt = "start" /\ level_no = 0 /\ pair_i = 0 /\ progress = 0
    /\ stop = FALSE /\ gil = "main" /\ pumpAt = "none"
    /\ pump_pct = 0 /\ last_pct = 0 /\ delivered = <<>> /\ result = "none"

pumpRest == <<variant, hasCb, slices, replaced, treeVars, pc, status, existing,
              doneUnits, groupVars, histVars, op, arg, res>>

\* ------------------------------------------------------ the calling thread
\* No file, or no pair to compute: one invocation with 100.0, no pump thread.
PStartNothing ==
    /\ mainAt = "start"
    /\ arg.n0 = 0 \/ PumpTotal = 0
    /\ IF hasCb THEN Deliver("main", Full) ELSE UNCHANGED delivered
    /\ PumpReturn("ok")
    /\ UNCHANGED <<level_no, pair_i, progress, stop, pumpAt, pump_pct, last_pct, pumpRest>>

\* The first slice cannot be read, or .thumbnail cannot be created.
PStartError ==
    /\ mainAt = "start"
    /\ arg.n0 > 0
    /\ PumpReturn("err")
    /\ UNCHANGED <<level_no, pair_i, progress, stop, pumpAt, pump_pct, last_pct,
                   delivered, pumpRest>>

\* The invocation with 0.0, then the pump thread is spawned; both only with
\* a callback.
PStart ==
    /\ mainAt = "start"
    /\ arg.n0 > 0 /\ PumpTotal > 0
    /\ IF hasCb THEN Deliver("main", 0) ELSE UNCHANGED delivered
    /\ pumpAt' = IF hasCb THEN "check" ELSE "none"
    /\ last_pct' = -PumpScale
    /\ mainAt' = "level" /\ level_no' = 1
    /\ UNCHANGED <<pair_i, progress, stop, gil, pump_pct, result, pumpRest>>

\* The head of the loop over the levels: the outputs found are credited.
PLevel ==
    /\ mainAt = "level"
    /\ LET pairs_expected == PumpUnits[level_no]
           already_clamped_ == Min(arg.found[level_no], pairs_expected)
       IN  /\ progress' = progress + already_clamped_ * PumpWeight(level_no)
           /\ pair_i' = already_clamped_
           /\ mainAt' = IF pairs_expected - already_clamped_ <= 0 THEN "list" ELSE "pairs"
    /\ UNCHANGED <<level_no, stop, gil, pumpAt, pump_pct, last_pct, delivered, result,
                   pumpRest>>

\* ensure_dir of the level directory fails: the call returns the error.
PLevelError ==
    /\ mainAt = "level"
    /\ PumpReturn("err")
    /\ UNCHANGED <<level_no, pair_i, progress, stop, pumpAt, pump_pct, last_pct,
                   delivered, pumpRest>>

\* process_level: one pair is read, merged and written, its weight added.
PPair ==
    /\ mainAt = "pairs"
    /\ progress' = progress + PumpWeight(level_no)
    /\ pair_i' = pair_i + 1
    /\ mainAt' = IF pair_i + 1 >= PumpUnits[level_no] THEN "list" ELSE "pairs"
    /\ UNCHANGED <<level_no, stop, gil, pumpAt, pump_pct, last_pct, delivered, result,
                   pumpRest>>

\* process_level: a read, the size check or the write of a pair fails.
PPairError ==
    /\ mainAt = "pairs"
    /\ PumpReturn("err")
    /\ UNCHANGED <<level_no, pair_i, progress, stop, pumpAt, pump_pct, last_pct,
                   delivered, pumpRest>>

\* The level directory is listed, the size halved; the loop ends after the
\* last level of the plan or when the size is small enough.
PLevelEnd ==
    /\ mainAt = "list"
    /\ IF level_no = PumpLevels
          \/ small_enough(Shr(arg.w0, level_no), Shr(arg.h0, level_no))
       THEN mainAt' = "stop" /\ level_no' = level_no
       ELSE mainAt' = "level" /\ level_no' = level_no + 1
    /\ UNCHANGED <<pair_i, progress, stop, gil, pumpAt, pump_pct, last_pct, delivered,
                   result, pumpRest>>

\* Listing the level directory fails: the call returns the error.
PListError ==
    /\ mainAt = "list"
    /\ PumpReturn("err")
    /\ UNCHANGED <<level_no, pair_i, progress, stop, pumpAt, pump_pct, last_pct,
                   delivered, pumpRest>>

\* stop.store(true)
PStop ==
    /\ mainAt = "stop"
    /\ stop' = TRUE
    /\ mainAt' = "join"
    /\ UNCHANGED <<level_no, pair_i, progress, gil, pumpAt, pump_pct, last_pct,
                   delivered, result, pumpRest>>

\* h.join(), when there is a pump thread: waits until it has ended.
PJoin ==
    /\ mainAt = "join"
    /\ pumpAt \in {"none", "exited"}
    /\ mainAt' = "final"
    /\ UNCHANGED <<level_no, pair_i, progress, stop, gil, pumpAt, pump_pct, last_pct,
                   delivered, result, pumpRest>>

\* The last invocation, with 100.0, and Ok(()).
PFinal ==
    /\ mainAt = "final"
    /\ IF hasCb THEN Deliver("main", Full) ELSE UNCHANGED delivered
    /\ PumpReturn("ok")
    /\ UNCHANGED <<level_no, pair_i, progress, stop, pumpAt, pump_pct, last_pct, pumpRest>>

\* -------------------------------------------------------- the pump thread
\* The head of the loop: the stop flag is read.
PumpCheckStop ==
    /\ pumpAt = "check"
    /\ pumpAt' = IF stop THEN "lastread" ELSE "read"
    /\ UNCHANGED <<mainAt, level_no, pair_i, progress, stop, gil, pump_pct, last_pct,
                   delivered, result, pumpRest>>

\* The progress is read under its mutex and compared with last_pct.
PumpRead ==
    /\ pumpAt = "read"
    /\ pump_pct' = percent_units(progress)
    /\ pumpAt' = IF pct_changed(percent_units(progress), last_pct) THEN "call" ELSE "check100"
    /\ UNCHANGED <<mainAt, level_no, pair_i, progress, stop, gil, last_pct, delivered,
                   result, pumpRest>>

\* Python::with_gil: the lock is taken when it is free, the observer invoked
\* with pct, the lock given back.
PumpCall ==
    /\ pumpAt = "call"
    /\ gil = "free"
    /\ Deliver("pump", pump_pct)
    /\ last_pct' = pump_pct
    /\ pumpAt' = "check100"
    /\ UNCHANGED <<mainAt, level_no, pair_i, progress, stop, gil, pump_pct, result,
                   pumpRest>>

\* if pct >= 99.99, else sleep
PumpCheck100 ==
    /\ pumpAt = "check100"
    /\ pumpAt' = IF near_full(pump_pct) THEN "call100" ELSE "sleep"
    /\ UNCHANGED <<mainAt, level_no, pair_i, progress, stop, gil, pump_pct, last_pct,
                   delivered, result, pumpRest>>

\* The invocation with 100.0 before the loop is left.
PumpCall100 ==
    /\ pumpAt = "call100"
    /\ gil = "free"
    /\ Deliver("pump", Full)
    /\ pumpAt' = "lastread"
    /\ UNCHANGED <<mainAt, level_no, pair_i, progress, stop, gil, pump_pct, last_pct,
                   result, pumpRest>>

\* thread::sleep(50 ms)
PumpSleep ==
    /\ pumpAt = "sleep"
    /\ pumpAt' = "check"
    /\ UNCHANGED <<mainAt, level_no, pair_i, progress, stop, gil, pump_pct, last_pct,
                   delivered, result, pumpRest>>

\* After the loop the progress is read once more.
PumpLastRead ==
    /\ pumpAt = "lastread"
    /\ pump_pct' = percent_units(progress)
    /\ pumpAt' = "lastcall"
    /\ UNCHANGED <<mainAt, level_no, pair_i, progress, stop, gil, last_pct, delivered,
                   result, pumpRest>>

\* The invocation after the loop; the thread ends.
PumpLastCall ==
    /\ pumpAt = "lastcall"
    /\ gil = "free"
    /\ Deliver("pump", pump_pct)
    /\ pumpAt' = "exited"
    /\ UNCHANGED <<mainAt, level_no, pair_i, progress, stop, gil, pump_pct, last_pct,
                   result, pumpRest>>

NextMain ==
    \/ PStartNothing
    \/ PStartError
    \/ PStart
    \/ PLevel
    \/ PLevelError
    \/ PPair
    \/ PPairError
    \/ PLevelEnd
    \/ PListError
    \/ PStop
    \/ PJoin
    \/ PFinal

NextPumpThread ==
    \/ PumpCheckStop
    \/ PumpRead
    \/ PumpCall
    \/ PumpCheck100
    \/ PumpCall100
    \/ PumpSleep
    \/ PumpLastRead
    \/ PumpLastCall

NextPump == NextMain \/ NextPumpThread

SpecPump == InitPump /\ [][NextPump]_vars

\* Each thread takes a step it can take: both are running threads.
FairSpecPump == SpecPump /\ WF_vars(NextMain) /\ WF_vars(NextPumpThread)

\* The pump thread is at an invocation of the observer and waits for the lock.
PumpWaitsForLock == pumpAt \in {"call", "call100", "lastcall"} /\ gil # "free"

\* C33 (pump-thread variant, no deadlock): in no state is the calling thread
\* waiting in join, the lock in its hands, while the pump thread waits for
\* the lock to invoke the observer.
C33_NoJoinDeadlock ==
    ~(mainAt = "join" /\ gil = "main" /\ PumpWaitsForLock)

\* C33 (pump-thread variant, termination): every call returns, and a pump
\* thread, once spawned, ends.
C33_EveryCallReturns ==
    <>(mainAt = "returned" /\ pumpAt \in {"none", "exited"})

\* C33: the calls that do return with success are those without a callback.
C33_ReturnsOkWithoutCallbackOnly ==
    (mainAt = "returned" /\ result = "ok" /\ arg.n0 > 0 /\ PumpTotal > 0) => ~hasCb

\* C34 (pump-thread variant, no callback after return): the observer is not
\* invoked once build_thumbnails has returned, with Ok or with an error.
C34_NoCallbackAfterReturn ==
    \A i \in 1..Len(delivered) : ~delivered[i].late

\* C34: when build_thumbnails has returned, a pump thread that was spawned
\* has been told to stop and has ended.
C34_PumpEndedAtReturn ==
    (mainAt = "returned" /\ pumpAt # "none") => (stop /\ pumpAt = "exited")

\* C34: no invocation follows a return with Ok.
C34_NoCallbackAfterOk ==
    result = "ok" => \A i \in 1..Len(delivered) : ~delivered[i].late

\* The values the observer was given, in order.
DeliveredValues == [i \in 1..Len(delivered) |-> delivered[i].v]

\* The values the pump thread gave, in order.
PumpValues == SelectSeq(delivered, LAMBDA d : d.by = "pump")

\* C35 (pump-thread variant, delivery order): in a call that spawns the pump
\* thread, the values given to the observer by both threads never decrease,
\* the first is 0.0 and, once the call has returned Ok, the last is 100.0.
C35_DeliveryOrder ==
    (hasCb /\ arg.n0 > 0 /\ PumpTotal > 0)
        => /\ NonDecreasing(DeliveredValues)
           /\ delivered # <<>> => delivered[1].v = 0
           /\ result = "ok" => Last(delivered).v = Full

\* C35: the value the pump thread gives after its loop is not below a value
\* it gave before.
C35_LastPumpValue ==
    pumpAt = "exited"
        => \A i \in 1..Len(PumpValues) : PumpValues[i].v <= Last(PumpValues).v

\* C35: the order holds in every call that starts with less than 99.99 % of
\* the units left to add, or ends with all of them added.
C35_DeliveryOrderFarFromFull ==
    (hasCb /\ arg.n0 > 0 /\ PumpTotal > 0
        /\ (~near_full(percent_units(progress)) \/ progress >= PumpTotal))
        => NonDecreasing(DeliveredValues)

\* C36 (output geometry): the output of a pair of level l of a build whose
\* first slice is w0 x h0 is written with width floor(w0 / 2^l) and height
\* floor(h0 / 2^l) from a buffer of width x height elements, so that the
\* write does not fail with ThumbError::Dim; and what is pushed for the next
\* level has that size, so that an output read back with another size is
\* not pushed.
C36_OutputGeometry ==
    (op = "pair_step" /\ res # <<>>)
        => LET r == res[1]
               wl == arg.w \div (2 ^ arg.level)
               hl == arg.h \div (2 ^ arg.level)
               file == FileOfKind(arg.kind, size_at_level(arg.w, arg.level),
                                  size_at_level(arg.h, arg.level))
           IN  /\ r.err = "none"
               /\ arg.kind = "unlisted" => Len(r.written) = 1
               /\ \A i \in 1..Len(r.written) :
                      /\ r.written[i].w = wl /\ r.written[i].h = hl
                      /\ r.written[i].len = wl * hl
               /\ \A i \in 1..Len(r.pushed) :
                      r.pushed[i].w = wl /\ r.pushed[i].h = hl
               /\ (file # <<>> /\ (file[1].w # wl \/ file[1].h # hl))
                      => r.pushed = <<>>

\* C36: an output of odd halves has been written at a level above the first.
C36_Witness ==
    /\ op = "pair_step" /\ res # <<>>
    /\ arg.level >= 2 /\ arg.w = 4007 /\ arg.h = 2003
    /\ Len(res[1].written) = 1
    /\ res[1].written[1].w = 1001 /\ res[1].written[1].h = 500

\* C36: an output found with one column too many has been read back and left
\* out of the inputs of the next level.
C36_OtherSizeSkipped ==
    /\ op = "pair_step" /\ res # <<>>
    /\ arg.kind = "wider" /\ arg.w = 2001
    /\ res[1].pushed = <<>> /\ res[1].written = <<>>

\* C36, in the builds of the grouped variant: every file of the output tree
\* has the size of its level.
C36_TreeGeometry ==
    Grouped => \A f \in disk : /\ f.w = W0 \div (2 ^ f.level)
                               /\ f.h = H0 \div (2 ^ f.level)

\* The accesses of a downscale that has not panicked are safe: every index
\* read is inside the source and outside its last odd column and row, every
\* row of dst is dw long, every element of dst is written once.
SafeAccesses(r, sw, sh) ==
    /\ \A y \in 0..(r.rows - 1) : \A x \in 0..(r.dw - 1) :
           \A i \in src_indices(sw, y, x) :
               /\ i >= 0 /\ i < sw * sh
               /\ i % sw < 2 * (sw \div 2)
               /\ i \div sw < 2 * (sh \div 2)
    /\ \A y \in 0..(r.rows - 1) : (y + 1) * r.dw <= r.dstLen
    /\ \A k \in 0..(r.dstLen - 1) :
           Cardinality({ yx \in (0..(r.rows - 1)) \X (0..(r.dw - 1)) :
                            yx[1] * r.dw + yx[2] = k }) = 1

\* C37 (downscale index safety): for every source of W >= 1 by H >= 1 that a
\* build hands to the downscale, with its buffer of floor(W/2) x floor(H/2)
\* elements, the row length is not zero, the indices read are inside the
\* source and leave out the last odd column and row, and every element of
\* the destination is written once.
C37_DownscaleIndexSafety ==
    (op = "downscale_shape" /\ res # <<>>)
        => /\ ~res[1].panic
           /\ res[1].dw > 0
           /\ SafeAccesses(res[1], arg.sw, arg.sh)

\* C37, for the sources two columns wide or more.
C37_SafeFromTwoColumns ==
    (op = "downscale_shape" /\ res # <<>> /\ arg.sw >= 2)
        => /\ ~res[1].panic
           /\ res[1].dw > 0
           /\ SafeAccesses(res[1], arg.sw, arg.sh)

\* C37: a source one column wide, at the third level of a build, makes the
\* row length zero.
C37_ZeroRowLength ==
    /\ op = "downscale_shape" /\ res # <<>>
    /\ arg.w0 = 7 /\ arg.level = 3 /\ arg.sw = 1 /\ arg.sh > 500
    /\ res[1].panic /\ res[1].dw = 0

====
